---- MODULE Spec2Model ----
(***************************************************************************)
(* Model of the RRV analysis pipeline:                                     *)
(*   mapping (shared/libs/mapping/mapping.ts)                              *)
(*     -> buildGraphFromMappingResult (shared/libs/buildGraph/buildGraph)  *)
(*     -> applyStateFunctionLayout -> applyJsxTreeLayout                   *)
(*        (entities/RenderGraphSvg.tsx)                                    *)
(*                                                                         *)
(* Strings of the program are sequences of one-character strings, so that  *)
(* startsWith / endsWith / includes / regular expressions are computed.    *)
(* Ids built by template strings (`hook-${n}`, `${kind}-${item.id}`) are   *)
(* tuples of their parts: identifiers hold no "-", so two template strings *)
(* are equal exactly when their part tuples are.                           *)
(***************************************************************************)
EXTENDS Integers, Sequences, FiniteSets, TLC

VARIABLES
  src,       \* the source handed to mapping(): its syntax tree, or a text that does not parse
  pc,        \* position in the pipeline of RenderGraphSvg / page
  result,    \* the Mapping.MappingResult (NoResult before mapping returns, or when it throws)
  layout,    \* the BuildGraph.GraphLayout of the current pipeline stage
  walk,      \* analyzeJsxTree's traversal state: jsxStack, result list, elements still open
  effectIn,  \* analyzeEffectCall's arguments: the call's path and globalStateNames
  effectOut, \* analyzeEffectCall's return value
  callLog    \* the calls made of a function under study: function, arguments, return value

vars == <<src, pc, result, layout, walk, effectIn, effectOut, callLog>>

---------------------------------------------------------------------------
(* Strings *)

StartsWith(s, p) == Len(p) <= Len(s) /\ SubSeq(s, 1, Len(p)) = p

EndsWith(s, p) == Len(p) <= Len(s) /\ SubSeq(s, Len(s) - Len(p) + 1, Len(s)) = p

Includes(s, p) == \E i \in 1..(Len(s) - Len(p) + 1) : SubSeq(s, i, i + Len(p) - 1) = p

UpperCase ==
  {"A","B","C","D","E","F","G","H","I","J","K","L","M",
   "N","O","P","Q","R","S","T","U","V","W","X","Y","Z"}

LowerOf ==
  [c \in UpperCase |->
     CASE c = "A" -> "a" [] c = "B" -> "b" [] c = "C" -> "c" [] c = "D" -> "d"
       [] c = "E" -> "e" [] c = "F" -> "f" [] c = "G" -> "g" [] c = "H" -> "h"
       [] c = "I" -> "i" [] c = "J" -> "j" [] c = "K" -> "k" [] c = "L" -> "l"
       [] c = "M" -> "m" [] c = "N" -> "n" [] c = "O" -> "o" [] c = "P" -> "p"
       [] c = "Q" -> "q" [] c = "R" -> "r" [] c = "S" -> "s" [] c = "T" -> "t"
       [] c = "U" -> "u" [] c = "V" -> "v" [] c = "W" -> "w" [] c = "X" -> "x"
       [] c = "Y" -> "y" [] c = "Z" -> "z"]

ToLowerCaseChar(c) == IF c \in UpperCase THEN LowerOf[c] ELSE c

ToLowerCase(s) == [i \in 1..Len(s) |-> ToLowerCaseChar(s[i])]

\* Array.from(new Set(list)): the first occurrence of each entry, in order.
RECURSIVE Dedup(_)
Dedup(list) ==
  IF list = <<>> THEN <<>>
  ELSE LET front == Dedup(SubSeq(list, 1, Len(list) - 1))
           last  == list[Len(list)]
       IN IF \E i \in 1..Len(front) : front[i] = last THEN front ELSE Append(front, last)

RECURSIVE Flatten(_)
Flatten(lists) ==
  IF lists = <<>> THEN <<>>
  ELSE IF Len(lists) = 1 THEN lists[1]
  ELSE LET half == Len(lists) \div 2
       IN Flatten(SubSeq(lists, 1, half)) \o Flatten(SubSeq(lists, half + 1, Len(lists)))

Range(list) == {list[i] : i \in 1..Len(list)}

\* Array.prototype.find as an index: the first i whose test is TRUE, 0 when there is none.
FirstTrue(tests) ==
  IF \E i \in 1..Len(tests) : tests[i]
  THEN CHOOSE i \in 1..Len(tests) : tests[i] /\ \A j \in 1..(i - 1) : ~tests[j]
  ELSE 0

\* The identifiers and string literals the analysed sources and the code use.
S_set       == <<"s","e","t">>
S_use       == <<"u","s","e">>
S_Store     == <<"S","t","o","r","e">>
S_Ref       == <<"R","e","f">>
S_ref       == <<"r","e","f">>
S_mutate    == <<"m","u","t","a","t","e">>
S_mutateAsync == <<"m","u","t","a","t","e","A","s","y","n","c">>
S_mutation  == <<"m","u","t","a","t","i","o","n">>
S_query     == <<"q","u","e","r","y">>
S_zustand   == <<"z","u","s","t","a","n","d">>
S_reactQuery == <<"r","e","a","c","t","Q","u","e","r","y">>
S_tanstack  == <<"@","t","a","n","s","t","a","c","k","/","r","e","a","c","t","-","q","u","e","r","y">>
S_react     == <<"r","e","a","c","t">>
S_useState  == <<"u","s","e","S","t","a","t","e">>
S_useRef    == <<"u","s","e","R","e","f">>
S_useReducer == <<"u","s","e","R","e","d","u","c","e","r">>
S_useEffect == <<"u","s","e","E","f","f","e","c","t">>
S_useLayoutEffect == <<"u","s","e","L","a","y","o","u","t","E","f","f","e","c","t">>
S_useCallback == <<"u","s","e","C","a","l","l","b","a","c","k">>
S_useMemo   == <<"u","s","e","M","e","m","o">>
S_useStore  == <<"u","s","e","S","t","o","r","e">>
S_useQuery  == <<"u","s","e","Q","u","e","r","y">>
S_useThing  == <<"u","s","e","T","h","i","n","g">>
S_count     == <<"c","o","u","n","t">>
S_setCount  == <<"s","e","t","C","o","u","n","t">>
S_a         == <<"a">>
S_b         == <<"b">>
S_setA      == <<"s","e","t","A">>
S_x         == <<"x">>
S_fooRef    == <<"f","o","o","R","e","f">>
S_boxRef    == <<"b","o","x","R","e","f">>
S_current   == <<"c","u","r","r","e","n","t">>
S_console   == <<"c","o","n","s","o","l","e">>
S_log       == <<"l","o","g">>
S_div       == <<"d","i","v">>
S_span      == <<"s","p","a","n">>
S_value     == <<"v","a","l","u","e">>
S_setValue  == <<"s","e","t","V","a","l","u","e">>
S_target    == <<"t","a","r","g","e","t">>
S_callback  == <<"c","a","l","l","b","a","c","k">>
S_onClick   == <<"o","n","C","l","i","c","k">>
S_global    == <<" ","(","g","l","o","b","a","l",")">>
S_Unknown   == <<"U","n","k","n","o","w","n">>
S_ns        == <<"n","s">>
S_name      == <<"n","a","m","e">>
S_App       == <<"A","p","p">>
S_Foo       == <<"F","o","o">>
S_Bar       == <<"B","a","r">>
S_tsx       == <<".","t","s","x">>
S_test      == <<".","t","e","s","t">>
S_srcDir    == <<"s","r","c","/">>
S_settings  == <<"s","e","t","t","i","n","g","s">>
S_setSettings == <<"s","e","t","S","e","t","t","i","n","g","s">>
S_counter   == <<"c","o","u","n","t","e","r">>
S_setCounter == <<"s","e","t","C","o","u","n","t","e","r">>
S_useQueryStore == <<"u","s","e","Q","u","e","r","y","S","t","o","r","e">>
S_useMutation == <<"u","s","e","M","u","t","a","t","i","o","n">>
S_zustandQuery == <<"@","/","z","u","s","t","a","n","d","/","r","e","a","c","t","Q","u","e","r","y">>

---------------------------------------------------------------------------
(* The syntax tree @babel/parser returns, as the code reads it: every node *)
(* has a type, a name (identifiers), its child nodes in the order          *)
(* @babel/traverse visits them with the key each child hangs on, and the   *)
(* start position of its text.                                             *)

NoLoc == [line |-> 0, column |-> 0]

Node(type, name, keys, kids, loc) ==
  [type |-> type, name |-> name, keys |-> keys, kids |-> kids, loc |-> loc]

NoNode == Node("none", <<>>, <<>>, <<>>, NoLoc)

Keys(key, n) == [i \in 1..n |-> key]

Identifier(name) == Node("Identifier", name, <<>>, <<>>, NoLoc)
NumericLiteral == Node("NumericLiteral", <<>>, <<>>, <<>>, NoLoc)
MemberExpression(object, property) ==
  Node("MemberExpression", <<>>, <<"object", "property">>, <<object, Identifier(property)>>, NoLoc)
CallExpression(callee, arguments, loc) ==
  Node("CallExpression", <<>>, <<"callee">> \o Keys("arguments", Len(arguments)),
       <<callee>> \o arguments, loc)
AssignmentExpression(left, right) ==
  Node("AssignmentExpression", <<>>, <<"left", "right">>, <<left, right>>, NoLoc)
BinaryExpression(left, right) ==
  Node("BinaryExpression", <<>>, <<"left", "right">>, <<left, right>>, NoLoc)
ArrayExpression(elements) ==
  Node("ArrayExpression", <<>>, Keys("elements", Len(elements)), elements, NoLoc)
ArrowFunctionExpression(body) ==
  Node("ArrowFunctionExpression", <<>>, <<"body">>, <<body>>, NoLoc)
BlockStatement(body) ==
  Node("BlockStatement", <<>>, Keys("body", Len(body)), body, NoLoc)
ExpressionStatement(expression) ==
  Node("ExpressionStatement", <<>>, <<"expression">>, <<expression>>, NoLoc)
ReturnStatement(argument) ==
  Node("ReturnStatement", <<>>, <<"argument">>, <<argument>>, NoLoc)
ArrayPattern(names) ==
  Node("ArrayPattern", <<>>, Keys("elements", Len(names)),
       [i \in 1..Len(names) |-> Identifier(names[i])], NoLoc)
ObjectProperty(key, value) ==
  Node("ObjectProperty", <<>>, <<"key", "value">>, <<Identifier(key), Identifier(value)>>, NoLoc)
ObjectPattern(props) ==
  Node("ObjectPattern", <<>>, Keys("properties", Len(props)), props, NoLoc)
VariableDeclarator(id, init) ==
  Node("VariableDeclarator", <<>>, <<"id", "init">>, <<id, init>>, NoLoc)
VariableDeclaration(id, init) ==
  Node("VariableDeclaration", <<>>, <<"declarations">>, <<VariableDeclarator(id, init)>>, NoLoc)
JSXIdentifier(name) == Node("JSXIdentifier", name, <<>>, <<>>, NoLoc)
JSXMemberExpression(object, property) ==
  Node("JSXMemberExpression", <<>>, <<"object", "property">>,
       <<object, JSXIdentifier(property)>>, NoLoc)
JSXNamespacedName(namespace, name) ==
  Node("JSXNamespacedName", <<>>, <<"namespace", "name">>,
       <<JSXIdentifier(namespace), JSXIdentifier(name)>>, NoLoc)
JSXExpressionContainer(expression) ==
  Node("JSXExpressionContainer", <<>>, <<"expression">>, <<expression>>, NoLoc)
JSXAttribute(name, value) ==
  Node("JSXAttribute", <<>>, <<"name", "value">>, <<JSXIdentifier(name), value>>, NoLoc)
JSXSpreadAttribute(argument) ==
  Node("JSXSpreadAttribute", <<>>, <<"argument">>, <<argument>>, NoLoc)
JSXOpeningElement(name, attributes, loc) ==
  Node("JSXOpeningElement", <<>>, <<"name">> \o Keys("attributes", Len(attributes)),
       <<name>> \o attributes, loc)
JSXElement(opening, children) ==
  Node("JSXElement", <<>>, <<"openingElement">> \o Keys("children", Len(children)),
       <<opening>> \o children, NoLoc)
JSXFragment(children) ==
  Node("JSXFragment", <<>>, Keys("children", Len(children)), children, NoLoc)

\* node[key] for a single child (NoNode when absent) and for a list of children.
Child(node, key) ==
  LET i == FirstTrue([k \in 1..Len(node.keys) |-> node.keys[k] = key])
  IN IF i = 0 THEN NoNode ELSE node.kids[i]

RECURSIVE ChildList(_, _)
ChildList(node, key) ==
  IF node.kids = <<>> THEN <<>>
  ELSE LET rest == ChildList([node EXCEPT !.kids = Tail(node.kids), !.keys = Tail(node.keys)], key)
       IN IF Head(node.keys) = key THEN <<Head(node.kids)>> \o rest ELSE rest

\* t.isExpression for the node types above.
IsExpression(node) ==
  node.type \in {"Identifier", "NumericLiteral", "MemberExpression", "CallExpression",
                 "AssignmentExpression", "BinaryExpression", "ArrayExpression",
                 "ArrowFunctionExpression", "FunctionExpression", "JSXElement", "JSXFragment"}

\* The enter and exit events of @babel/traverse on the subtree of one node, in order.
\* A path is the node with its parent node and the key it hangs on.
RECURSIVE VisitEvents(_, _, _)
VisitEvents(node, parent, key) ==
  LET path == [node |-> node, parent |-> parent, key |-> key]
  IN <<[ev |-> "enter", path |-> path]>>
     \o Flatten([i \in 1..Len(node.kids) |-> VisitEvents(node.kids[i], node, node.keys[i])])
     \o <<[ev |-> "exit", path |-> path]>>

\* path.traverse(visitor): the visitor sees the nodes below path.node, never path.node itself.
TraverseEvents(root) ==
  Flatten([i \in 1..Len(root.kids) |-> VisitEvents(root.kids[i], root, root.keys[i])])

IsEnter(e) == e.ev = "enter"

\* The paths in the order a visitor's (enter) handlers see them.
TraversePaths(root) ==
  LET es == SelectSeq(TraverseEvents(root), IsEnter)
  IN [i \in 1..Len(es) |-> es[i].path]

---------------------------------------------------------------------------
(* mapping.ts *)

IsSetterName(name) == Len(name) >= 4 /\ SubSeq(name, 1, 3) = S_set /\ name[4] \in UpperCase

\* definedAt: loc ? { line: loc.start.line, column: loc.start.column } : null
\* (the parser gives every node a loc).
DefinedAt(loc) == [line |-> loc.line, column |-> loc.column]

\* The names a CallExpression visitor of an effect body pushes to setters for one node.
SetterPushes(node) ==
  LET innerCallee == Child(node, "callee")
  IN (IF innerCallee.type = "Identifier" /\ IsSetterName(innerCallee.name)
      THEN <<innerCallee.name>> ELSE <<>>)
     \o
     (IF /\ innerCallee.type = "MemberExpression"
         /\ Child(innerCallee, "property").type = "Identifier"
         /\ Child(innerCallee, "property").name \in {S_mutate, S_mutateAsync}
         /\ Child(innerCallee, "object").type = "Identifier"
      THEN <<Child(innerCallee, "object").name \o <<".">> \o Child(innerCallee, "property").name>>
      ELSE <<>>)

\* The MemberExpression visitor of an effect body: "write", "read" or "none" for one path.
RefAccess(path) ==
  LET obj == Child(path.node, "object")
  IN IF ~(obj.type = "Identifier" /\ EndsWith(obj.name, S_Ref)) THEN "none"
     ELSE IF path.parent.type = "AssignmentExpression" /\ path.key = "left"
          THEN "write" ELSE "read"

\* The paths the nested traversal of a hook callback's body visits.
CallbackBodyPaths(cbArg) ==
  IF cbArg.type \in {"ArrowFunctionExpression", "FunctionExpression"}
  THEN LET body == Child(cbArg, "body")
       IN IF body.type = "BlockStatement" \/ IsExpression(body)
          THEN TraversePaths(body) ELSE <<>>
  ELSE <<>>

IsCallPath(p) == p.node.type = "CallExpression"
IsMemberPath(p) == p.node.type = "MemberExpression"
IsRefWrite(p) == IsMemberPath(p) /\ RefAccess(p) = "write"
IsRefRead(p) == IsMemberPath(p) /\ RefAccess(p) = "read"
IsIdentifierNode(n) == n.type = "Identifier"

ObjectNames(paths) == [i \in 1..Len(paths) |-> Child(paths[i].node, "object").name]

AnalyzeEffectCall(node, effectId, hookKind, globalStateNames) ==
  LET args     == ChildList(node, "arguments")
      cbArg    == IF Len(args) >= 1 THEN args[1] ELSE NoNode
      depsArg  == IF Len(args) >= 2 THEN args[2] ELSE NoNode
      depIds   == IF depsArg.type = "ArrayExpression"
                  THEN SelectSeq(ChildList(depsArg, "elements"), IsIdentifierNode) ELSE <<>>
      paths    == CallbackBodyPaths(cbArg)
      calls    == SelectSeq(paths, IsCallPath)
  IN [id           |-> effectId,
      hookKind     |-> hookKind,
      dependencies |-> [i \in 1..Len(depIds) |->
                          [name |-> depIds[i].name,
                           isGlobal |-> depIds[i].name \in globalStateNames]],
      setters      |-> Dedup(Flatten([i \in 1..Len(calls) |-> SetterPushes(calls[i].node)])),
      refReads     |-> Dedup(ObjectNames(SelectSeq(paths, IsRefRead))),
      refWrites    |-> Dedup(ObjectNames(SelectSeq(paths, IsRefWrite))),
      definedAt    |-> DefinedAt(node.loc)]

\* A value that is null or undefined in the program (no string is this sequence).
Null == <<"null">>

Truthy(s) == s # Null /\ s # <<>>

K_useState        == S_useState
K_useRef          == S_useRef
K_useReducer      == S_useReducer
K_useEffect       == S_useEffect
K_useLayoutEffect == S_useLayoutEffect
K_useCallback     == S_useCallback
K_useMemo         == S_useMemo
K_zustand         == S_zustand
K_reactQuery      == <<"r","e","a","c","t","-","q","u","e","r","y">>
K_custom          == <<"c","u","s","t","o","m">>

\* A rule table that asks for the query library before the store.
ClassifyHookKindQueryFirst(calleeName, importSource) ==
  IF calleeName \in {S_useState, S_useRef, S_useReducer, S_useEffect, S_useLayoutEffect,
                     S_useCallback, S_useMemo}
  THEN calleeName
  ELSE IF /\ Truthy(importSource)
          /\ (Includes(importSource, S_reactQuery) \/ Includes(importSource, S_tanstack))
          /\ (\/ Includes(ToLowerCase(calleeName), S_mutation)
              \/ Includes(ToLowerCase(calleeName), S_query))
       THEN K_reactQuery
  ELSE IF /\ StartsWith(calleeName, S_use)
          /\ EndsWith(calleeName, S_Store)
          /\ Truthy(importSource)
          /\ Includes(importSource, S_zustand)
       THEN K_zustand
  ELSE K_custom

ClassifyHookKind(calleeName, importSource) ==
  IF calleeName = S_useState THEN K_useState
  ELSE IF calleeName = S_useRef THEN K_useRef
  ELSE IF calleeName = S_useReducer THEN K_useReducer
  ELSE IF calleeName = S_useEffect THEN K_useEffect
  ELSE IF calleeName = S_useLayoutEffect THEN K_useLayoutEffect
  ELSE IF calleeName = S_useCallback THEN K_useCallback
  ELSE IF calleeName = S_useMemo THEN K_useMemo
  ELSE IF /\ StartsWith(calleeName, S_use)
          /\ EndsWith(calleeName, S_Store)
          /\ Truthy(importSource)
          /\ Includes(importSource, S_zustand)
       THEN K_zustand
  ELSE IF /\ Truthy(importSource)
          /\ (Includes(importSource, S_reactQuery) \/ Includes(importSource, S_tanstack))
          /\ (\/ Includes(ToLowerCase(calleeName), S_mutation)
              \/ Includes(ToLowerCase(calleeName), S_query))
       THEN K_reactQuery
  ELSE K_custom

AnalyzeUseCallbackCall(path, callbackId) ==
  LET node     == path.node
      args     == ChildList(node, "arguments")
      cbArg    == IF Len(args) >= 1 THEN args[1] ELSE NoNode
      depsArg  == IF Len(args) >= 2 THEN args[2] ELSE NoNode
      depIds   == IF depsArg.type = "ArrayExpression"
                  THEN SelectSeq(ChildList(depsArg, "elements"), IsIdentifierNode) ELSE <<>>
      calls    == SelectSeq(CallbackBodyPaths(cbArg), IsCallPath)
      callees  == [i \in 1..Len(calls) |-> Child(calls[i].node, "callee")]
      IsSetterCallee(c) == c.type = "Identifier" /\ IsSetterName(c.name)
      setCalls == SelectSeq(callees, IsSetterCallee)
  IN [id           |-> callbackId,
      name         |-> IF /\ path.parent.type = "VariableDeclarator"
                          /\ Child(path.parent, "id").type = "Identifier"
                       THEN Child(path.parent, "id").name ELSE Null,
      dependencies |-> Dedup([i \in 1..Len(depIds) |-> depIds[i].name]),
      setters      |-> Dedup([i \in 1..Len(setCalls) |-> setCalls[i].name]),
      definedAt    |-> DefinedAt(node.loc)]

\* parts.join(sep)
RECURSIVE Join(_, _)
Join(parts, sep) ==
  IF parts = <<>> THEN <<>>
  ELSE IF Len(parts) = 1 THEN parts[1]
  ELSE parts[1] \o sep \o Join(Tail(parts), sep)

\* The while loop of getJsxName over a JSXMemberExpression chain.
RECURSIVE JsxMemberParts(_)
JsxMemberParts(current) ==
  IF current.type # "JSXMemberExpression" THEN <<>>
  ELSE LET object   == Child(current, "object")
           property == Child(current, "property")
       IN (IF object.type = "JSXIdentifier" THEN <<object.name>> ELSE JsxMemberParts(object))
          \o (IF property.type = "JSXIdentifier" THEN <<property.name>> ELSE <<>>)

GetJsxName(opening) ==
  LET name == Child(opening, "name")
  IN IF name.type = "JSXIdentifier" THEN name.name
     ELSE IF name.type = "JSXMemberExpression" THEN Join(JsxMemberParts(name), <<".">>)
     ELSE IF name.type = "JSXNamespacedName"
          THEN (IF Child(name, "namespace").type = "JSXIdentifier"
                THEN Child(name, "namespace").name ELSE S_ns)
               \o <<":">> \o
               (IF Child(name, "name").type = "JSXIdentifier"
                THEN Child(name, "name").name ELSE S_name)
     ELSE S_Unknown

\* The identifier one attribute binds (Null when it binds none) in the forEach of
\* JSXElement.enter.
AttrBaseName(attr) ==
  IF attr.type # "JSXAttribute" THEN Null
  ELSE IF Child(attr, "name").type # "JSXIdentifier" THEN Null
  ELSE IF Child(attr, "value").type # "JSXExpressionContainer" THEN Null
  ELSE LET expr == Child(Child(attr, "value"), "expression")
       IN IF expr.type = "Identifier" THEN expr.name
          ELSE IF expr.type = "MemberExpression" /\ Child(expr, "object").type = "Identifier"
               THEN Child(expr, "object").name
          ELSE Null

IsBoundAttr(attr) == Truthy(AttrBaseName(attr))
IsBoundRefAttr(attr) == IsBoundAttr(attr) /\ Child(attr, "name").name = S_ref

AttrBaseNames(attrs) == [i \in 1..Len(attrs) |-> AttrBaseName(attrs[i])]

NullId == <<"null", 0>>

JsxId(n) == <<"jsx", n>>

\* JSXElement.enter of analyzeJsxTree on the traversal state w = [jsxStack, result].
JsxEnter(w, element) ==
  LET opening  == Child(element, "openingElement")
      attrs    == ChildList(opening, "attributes")
      depth    == Len(w.jsxStack)
      parentId == IF Len(w.jsxStack) > 0 THEN w.jsxStack[Len(w.jsxStack)] ELSE NullId
      id       == JsxId(Len(w.result) + 1)
  IN [jsxStack |-> Append(w.jsxStack, id),
      result   |-> Append(w.result,
                     [id        |-> id,
                      component |-> GetJsxName(opening),
                      depth     |-> depth,
                      parentId  |-> parentId,
                      props     |-> Dedup(AttrBaseNames(SelectSeq(attrs, IsBoundAttr))),
                      refProps  |-> Dedup(AttrBaseNames(SelectSeq(attrs, IsBoundRefAttr))),
                      definedAt |-> DefinedAt(opening.loc)])]

\* An exit that leaves the stack as it is, and one that empties it.
JsxExitKeep(w) == w
JsxExitAll(w) == [w EXCEPT !.jsxStack = <<>>]

\* JSXElement.exit: jsxStack.pop() (no effect on an empty array).
JsxExit(w) ==
  [w EXCEPT !.jsxStack = IF w.jsxStack = <<>> THEN <<>>
                         ELSE SubSeq(w.jsxStack, 1, Len(w.jsxStack) - 1)]

RECURSIVE JsxWalkEvents(_, _)
JsxWalkEvents(w, events) ==
  IF events = <<>> THEN w
  ELSE LET e == Head(events)
       IN JsxWalkEvents(
            IF e.path.node.type # "JSXElement" THEN w
            ELSE IF e.ev = "enter" THEN JsxEnter(w, e.path.node) ELSE JsxExit(w),
            Tail(events))

\* analyzeJsxTree(rootPath, result): a fresh jsxStack, the caller's result list.
AnalyzeJsxTree(root, jsxNodes) ==
  LET OfElement(e) == e.path.node.type = "JSXElement"
  IN JsxWalkEvents([jsxStack |-> <<>>, result |-> jsxNodes],
                   SelectSeq(TraverseEvents(root), OfElement)).result

\* Top-level nodes of a module.
StringLiteral(value) == Node("StringLiteral", value, <<>>, <<>>, NoLoc)
ImportSpecifier(local) ==
  Node("ImportSpecifier", <<>>, <<"local">>, <<Identifier(local)>>, NoLoc)
ImportDeclaration(locals, source) ==
  Node("ImportDeclaration", <<>>, Keys("specifiers", Len(locals)) \o <<"source">>,
       [i \in 1..Len(locals) |-> ImportSpecifier(locals[i])] \o <<StringLiteral(source)>>, NoLoc)
FunctionDeclaration(id, body) ==
  Node("FunctionDeclaration", <<>>, <<"id", "body">>, <<Identifier(id), body>>, NoLoc)
ExportSpecifier(exported) ==
  Node("ExportSpecifier", <<>>, <<"exported">>, <<Identifier(exported)>>, NoLoc)
ExportDefaultDeclaration(declaration) ==
  Node("ExportDefaultDeclaration", <<>>, <<"declaration">>, <<declaration>>, NoLoc)
ExportNamedDeclaration(declarations, specifiers) ==
  Node("ExportNamedDeclaration", <<>>,
       Keys("declaration", Len(declarations)) \o Keys("specifiers", Len(specifiers)),
       declarations \o [i \in 1..Len(specifiers) |-> ExportSpecifier(specifiers[i])], NoLoc)
Program(body) == Node("Program", <<>>, Keys("body", Len(body)), body, NoLoc)
File(body) == Node("File", <<>>, <<"program">>, <<Program(body)>>, NoLoc)

\* parse(source, ...): the syntax tree, or a SyntaxError raised to the caller.
\* The name one ExportDefaultDeclaration assigns to info.defaultExport (<<>>: none).
DefaultExportNames(node) ==
  LET decl == Child(node, "declaration")
  IN IF decl.type = "Identifier" THEN <<decl.name>>
     ELSE IF decl.type = "FunctionDeclaration" /\ Child(decl, "id").type = "Identifier"
          THEN <<Child(decl, "id").name>>
     ELSE <<>>

\* The names one ExportNamedDeclaration pushes to info.namedExports.
NamedExportNames(node) ==
  LET decl  == Child(node, "declaration")
      specs == ChildList(node, "specifiers")
  IN (IF decl.type = "FunctionDeclaration" /\ Child(decl, "id").type = "Identifier"
      THEN <<Child(decl, "id").name>> ELSE <<>>)
     \o [i \in 1..Len(specs) |-> Child(specs[i], "exported").name]

CollectExportedComponents(ast) ==
  LET paths    == TraversePaths(ast)
      IsDefault(p) == p.node.type = "ExportDefaultDeclaration"
      IsNamed(p)   == p.node.type = "ExportNamedDeclaration"
      defaults == SelectSeq(paths, IsDefault)
      nameds   == SelectSeq(paths, IsNamed)
      assigned == Flatten([i \in 1..Len(defaults) |-> DefaultExportNames(defaults[i].node)])
  IN [defaultExport |-> IF assigned = <<>> THEN Null ELSE assigned[Len(assigned)],
      namedExports  |-> Flatten([i \in 1..Len(nameds) |-> NamedExportNames(nameds[i].node)])]

\* fileName.replace(/\.[^/.]+$/, "")
StripExtension(fileName) ==
  LET dots == {i \in 1..Len(fileName) : fileName[i] = "."}
  IN IF dots = {} THEN fileName
     ELSE LET last == CHOOSE i \in dots : \A j \in dots : j <= i
              tail == SubSeq(fileName, last + 1, Len(fileName))
          IN IF tail # <<>> /\ "/" \notin Range(tail)
             THEN SubSeq(fileName, 1, last - 1) ELSE fileName

PickPrimaryComponent(exportInfo, fileName) ==
  IF Truthy(exportInfo.defaultExport) THEN exportInfo.defaultExport
  ELSE IF Len(exportInfo.namedExports) = 1 THEN exportInfo.namedExports[1]
  ELSE IF /\ Truthy(fileName)
          /\ Truthy(StripExtension(fileName))
          /\ StripExtension(fileName) \in Range(exportInfo.namedExports)
       THEN StripExtension(fileName)
  ELSE IF exportInfo.namedExports # <<>> THEN exportInfo.namedExports[1]
  ELSE Null

\* map[spec.local.name] = src, later imports overwriting earlier ones.
CollectImportMap(ast) ==
  LET body    == ChildList(Child(ast, "program"), "body")
      IsImport(n) == n.type = "ImportDeclaration"
      imports == SelectSeq(body, IsImport)
      Locals(n) == {Child(sp, "local").name : sp \in Range(ChildList(n, "specifiers"))}
      names   == UNION {Locals(imports[i]) : i \in 1..Len(imports)}
  IN [n \in names |->
        LET last == CHOOSE i \in 1..Len(imports) :
                      /\ n \in Locals(imports[i])
                      /\ \A j \in (i + 1)..Len(imports) : n \notin Locals(imports[j])
        IN Child(imports[last], "source").name]

\* importMap[localName] ?? null
ImportSource(importMap, localName) ==
  IF localName \in DOMAIN importMap THEN importMap[localName] ELSE Null

\* An id taken from the declaration's position in place of the record's.
HookIdOfDeclaration(n) == <<"hook", (n + 1) \div 2>>

HookId(n) == <<"hook", n>>
EffectId(n) == <<"effect", n>>
CallbackId(n) == <<"callback", n>>

\* A declarator that binds one name, the first, whatever its pattern holds.
BoundNamesFirst(id) ==
  IF id.type = "Identifier" THEN <<id.name>>
  ELSE IF id.type = "ArrayPattern"
       THEN LET els == SelectSeq(ChildList(id, "elements"), IsIdentifierNode)
            IN IF els = <<>> THEN <<>> ELSE <<els[1].name>>
  ELSE <<>>

\* The names a declarator's id binds: identifier, array pattern, object pattern.
BoundNames(id) ==
  IF id.type = "Identifier" THEN <<id.name>>
  ELSE IF id.type = "ArrayPattern"
       THEN LET els == SelectSeq(ChildList(id, "elements"), IsIdentifierNode)
            IN [i \in 1..Len(els) |-> els[i].name]
  ELSE IF id.type = "ObjectPattern"
       THEN LET IsBinding(prop) == prop.type = "ObjectProperty"
                                   /\ Child(prop, "value").type = "Identifier"
                props == SelectSeq(ChildList(id, "properties"), IsBinding)
            IN [i \in 1..Len(props) |-> Child(props[i], "value").name]
  ELSE <<>>

\* A scope that tells the external store only.
HookScopeStoreOnly(hookKind) == IF hookKind = K_zustand THEN "global" ELSE "local"

HookScope(hookKind) ==
  IF hookKind = K_zustand \/ hookKind = K_reactQuery THEN "global" ELSE "local"

\* A VariableDeclarator visitor that never adds to the global names.
DeclaratorVisitorNoGlobals(acc, path, importMap) ==
  LET init   == Child(path.node, "init")
      callee == Child(init, "callee")
  IN IF init.type # "CallExpression" THEN acc
     ELSE IF callee.type # "Identifier" THEN acc
     ELSE LET source   == ImportSource(importMap, callee.name)
              hookKind == ClassifyHookKind(callee.name, source)
              names    == BoundNames(Child(path.node, "id"))
              scope    == HookScope(hookKind)
          IN [acc EXCEPT
                !.hooks = acc.hooks \o
                  [i \in 1..Len(names) |->
                     [id        |-> HookId(Len(acc.hooks) + i),
                      name      |-> names[i],
                      hookKind  |-> hookKind,
                      scope     |-> scope,
                      definedAt |-> DefinedAt(init.loc),
                      meta      |-> [importSource |-> source]]]]

\* The VariableDeclarator visitor of inspectFunctionBody.
DeclaratorVisitor(acc, path, importMap) ==
  LET init   == Child(path.node, "init")
      callee == Child(init, "callee")
  IN IF init.type # "CallExpression" THEN acc
     ELSE IF callee.type # "Identifier" THEN acc
     ELSE LET source   == ImportSource(importMap, callee.name)
              hookKind == ClassifyHookKind(callee.name, source)
              names    == BoundNames(Child(path.node, "id"))
              scope    == HookScope(hookKind)
          IN [acc EXCEPT
                !.hooks = acc.hooks \o
                  [i \in 1..Len(names) |->
                     [id        |-> HookId(Len(acc.hooks) + i),
                      name      |-> names[i],
                      hookKind  |-> hookKind,
                      scope     |-> scope,
                      definedAt |-> DefinedAt(init.loc),
                      meta      |-> [importSource |-> source]]],
                !.globalStateNames =
                  IF scope = "global" THEN acc.globalStateNames \cup Range(names)
                  ELSE acc.globalStateNames]

\* The CallExpression visitor of inspectFunctionBody.
CallVisitor(acc, path, importMap) ==
  LET callee == Child(path.node, "callee")
  IN IF callee.type # "Identifier" THEN acc
     ELSE LET hookKind == ClassifyHookKind(callee.name, ImportSource(importMap, callee.name))
          IN [acc EXCEPT
                !.calledVariableNames =
                  IF callee.name \in Range(acc.calledVariableNames) THEN @
                  ELSE Append(@, callee.name),
                !.effects =
                  IF hookKind = K_useEffect \/ hookKind = K_useLayoutEffect
                  THEN Append(@, AnalyzeEffectCall(path.node, EffectId(Len(acc.effects) + 1),
                                                   hookKind, acc.globalStateNames))
                  ELSE @,
                !.callbacks =
                  IF hookKind = K_useCallback
                  THEN Append(@, AnalyzeUseCallbackCall(path, CallbackId(Len(acc.callbacks) + 1)))
                  ELSE @]

\* bodyPath.traverse({ VariableDeclarator, CallExpression }) over the visited paths.
\* The accumulator is bound to its value before the later paths are visited.
RECURSIVE InspectPaths(_, _, _)
InspectPaths(acc, paths, importMap) ==
  IF paths = <<>> THEN acc
  ELSE IF Len(paths) = 1
  THEN IF paths[1].node.type = "VariableDeclarator" THEN DeclaratorVisitor(acc, paths[1], importMap)
       ELSE IF paths[1].node.type = "CallExpression" THEN CallVisitor(acc, paths[1], importMap)
       ELSE acc
  ELSE CHOOSE out \in
         {InspectPaths(front, SubSeq(paths, Len(paths) \div 2 + 1, Len(paths)), importMap) :
            front \in {InspectPaths(acc, SubSeq(paths, 1, Len(paths) \div 2), importMap)}} : TRUE

InspectFunctionBody(acc, body, importMap) ==
  LET HasVisitor(p) == p.node.type \in {"VariableDeclarator", "CallExpression"}
  IN InspectPaths([acc EXCEPT !.jsxNodes = AnalyzeJsxTree(body, acc.jsxNodes)],
                  SelectSeq(TraversePaths(body), HasVisitor), importMap)

\* A resolver that takes any declared function for the component.
IsPrimaryComponentAnyFunction(path, primaryComponentName) ==
  path.node.type = "FunctionDeclaration"
  \/ (path.node.type = "VariableDeclarator"
      /\ Child(path.node, "id").type = "Identifier"
      /\ Child(path.node, "id").name = primaryComponentName)

IsPrimaryComponent(path, primaryComponentName) ==
  IF ~Truthy(primaryComponentName) THEN FALSE
  ELSE IF path.node.type = "FunctionDeclaration"
       THEN Child(path.node, "id").type = "Identifier"
            /\ Child(path.node, "id").name = primaryComponentName
  ELSE IF path.node.type = "VariableDeclarator"
       THEN Child(path.node, "id").type = "Identifier"
            /\ Child(path.node, "id").name = primaryComponentName
  ELSE FALSE

\* The FunctionDeclaration and VariableDeclarator visitors of analyzeComponentBody.
ComponentVisitor(acc, path, primaryComponentName, importMap) ==
  IF ~IsPrimaryComponent(path, primaryComponentName) THEN acc
  ELSE IF path.node.type = "FunctionDeclaration"
       THEN IF Child(path.node, "body").type = "BlockStatement"
            THEN InspectFunctionBody(acc, Child(path.node, "body"), importMap) ELSE acc
  ELSE LET init == Child(path.node, "init")
       IN IF init.type \in {"ArrowFunctionExpression", "FunctionExpression"}
          THEN IF Child(init, "body").type = "BlockStatement"
               THEN InspectFunctionBody(acc, Child(init, "body"), importMap)
               ELSE IF IsExpression(Child(init, "body"))
                    THEN [acc EXCEPT !.jsxNodes = AnalyzeJsxTree(Child(init, "body"), @)]
                    ELSE acc
          ELSE acc

RECURSIVE ComponentPaths(_, _, _, _)
ComponentPaths(acc, paths, primaryComponentName, importMap) ==
  IF paths = <<>> THEN acc
  ELSE ComponentPaths(
         IF Head(paths).node.type \in {"FunctionDeclaration", "VariableDeclarator"}
         THEN ComponentVisitor(acc, Head(paths), primaryComponentName, importMap) ELSE acc,
         Tail(paths), primaryComponentName, importMap)

AnalyzeComponentBody(ast, primaryComponentName, importMap) ==
  LET HasVisitor(p) == p.node.type \in {"FunctionDeclaration", "VariableDeclarator"}
  IN ComponentPaths([hooks |-> <<>>, effects |-> <<>>, callbacks |-> <<>>, jsxNodes |-> <<>>,
                     globalStateNames |-> {}, calledVariableNames |-> <<>>],
                    SelectSeq(TraversePaths(ast), HasVisitor), primaryComponentName, importMap)

---------------------------------------------------------------------------
(* The sources analysed: a module                                          *)
(*   import { useState, useEffect, ... } from "react";                     *)
(*   import { useStore } from "zustand";                                   *)
(*   export default function App() { <statements> return <elements>; }     *)
(* (or `const App = () => ...; export default App;`), its statements drawn *)
(* from StatementPool and its elements from the forests over ElementPool.  *)

MaxStmts == 2
MaxJsxNodes == 2
MaxWalkNodes == 4

At(line, column) == [line |-> line, column |-> column]

\* The text positions of a statement's nodes, moved to the statement's line.
RECURSIVE Relocate(_, _)
Relocate(node, line) ==
  [node EXCEPT !.loc  = IF @ = NoLoc THEN @ ELSE [@ EXCEPT !.line = line],
               !.kids = [i \in 1..Len(node.kids) |-> Relocate(node.kids[i], line)]]

Call0(callee, arguments) == CallExpression(Identifier(callee), arguments, NoLoc)

\* const [count, setCount] = useState(0);
StmtUseState(value, setter) ==
  VariableDeclaration(ArrayPattern(<<value, setter>>),
                      CallExpression(Identifier(S_useState), <<NumericLiteral>>,
                                     At(1, Len(value) + Len(setter) + 15)))
\* const boxRef = useRef(0);
StmtUseRef(name) ==
  VariableDeclaration(Identifier(name),
                      CallExpression(Identifier(S_useRef), <<NumericLiteral>>, At(1, Len(name) + 11)))
\* const a = useStore();
StmtUseStore(name) ==
  VariableDeclaration(Identifier(name),
                      CallExpression(Identifier(S_useStore), <<>>, At(1, Len(name) + 11)))
\* useEffect(cb, deps);
StmtEffect(hook, cb, deps) ==
  ExpressionStatement(CallExpression(Identifier(hook), <<cb, ArrayExpression(deps)>>, At(1, 2)))
\* const onClick = useCallback(cb, deps);
StmtUseCallback(name, cb, deps) ==
  VariableDeclaration(Identifier(name),
                      CallExpression(Identifier(S_useCallback), <<cb, ArrayExpression(deps)>>,
                                     At(1, Len(name) + 11)))

\* setCount(count + 1)
CallSetCount == Call0(S_setCount, <<BinaryExpression(Identifier(S_count), NumericLiteral)>>)
\* boxRef.current = 1
WriteBoxRef ==
  AssignmentExpression(MemberExpression(Identifier(S_boxRef), S_current), NumericLiteral)
\* console.log(boxRef.current)
ReadBoxRef ==
  CallExpression(MemberExpression(Identifier(S_console), S_log),
                 <<MemberExpression(Identifier(S_boxRef), S_current)>>, NoLoc)
\* a.mutate(x)
CallMutate ==
  CallExpression(MemberExpression(Identifier(S_a), S_mutate), <<Identifier(S_x)>>, NoLoc)

BlockOf(exprs) == BlockStatement([i \in 1..Len(exprs) |-> ExpressionStatement(exprs[i])])

StatementPool ==
  { StmtUseState(S_count, S_setCount),
    StmtUseState(S_value, S_setValue),
    StmtUseRef(S_boxRef),
    StmtUseStore(S_a),
    \* useEffect(() => setCount(count + 1), [count]);
    StmtEffect(S_useEffect, ArrowFunctionExpression(CallSetCount), <<Identifier(S_count)>>),
    \* useEffect(() => { setCount(count + 1); }, [count, count]);
    StmtEffect(S_useEffect, ArrowFunctionExpression(BlockOf(<<CallSetCount>>)),
               <<Identifier(S_count), Identifier(S_count)>>),
    \* useLayoutEffect(() => { boxRef.current = 1; console.log(boxRef.current); a.mutate(x); }, [a]);
    StmtEffect(S_useLayoutEffect,
               ArrowFunctionExpression(BlockOf(<<WriteBoxRef, ReadBoxRef, CallMutate>>)),
               <<Identifier(S_a)>>),
    \* const onClick = useCallback(() => { setCount(count + 1); }, [count]);
    StmtUseCallback(S_onClick, ArrowFunctionExpression(BlockOf(<<CallSetCount>>)),
                    <<Identifier(S_count)>>) }

\* What one element carries: its tag, its attributes, its expression children.
Decor(tag, attributes, children) == [tag |-> tag, attributes |-> attributes, children |-> children]

ElementPool ==
  { \* <div>
    Decor(S_div, <<>>, <<>>),
    \* <div>{count}
    Decor(S_div, <<>>, <<JSXExpressionContainer(Identifier(S_count))>>),
    \* <div value={count}>
    Decor(S_div, <<JSXAttribute(S_value, JSXExpressionContainer(Identifier(S_count)))>>, <<>>),
    \* <div ref={boxRef}>
    Decor(S_div, <<JSXAttribute(S_ref, JSXExpressionContainer(Identifier(S_boxRef)))>>, <<>>),
    \* <span target={boxRef.current}>
    Decor(S_span, <<JSXAttribute(S_target, JSXExpressionContainer(
                      MemberExpression(Identifier(S_boxRef), S_current)))>>, <<>>) }

\* Element i's ancestors and i itself, under the parent vector p (0: no parent).
RECURSIVE AncestorsOrSelf(_, _)
AncestorsOrSelf(p, i) == IF i = 0 THEN {} ELSE {i} \cup AncestorsOrSelf(p, p[i])

\* The nestings of n elements numbered in document order: element i opens inside the
\* element that is still open when it starts.
ParentVectors(n) ==
  {p \in [1..n -> 0..n] :
     \A i \in 1..n : p[i] < i /\ (i > 1 => p[i] \in AncestorsOrSelf(p, i - 1) \cup {0})}

\* The JSXElement of element i of a forest (p: parents, d: decorations), at line i of
\* the returned markup.
RECURSIVE ElementAst(_, _, _)
ElementAst(p, d, i) ==
  LET n    == Len(d)
      IsKid(j) == p[j] = i
      kids == SelectSeq([j \in 1..n |-> j], IsKid)
  IN JSXElement(JSXOpeningElement(JSXIdentifier(d[i].tag), d[i].attributes, At(i, 2 * i)),
                d[i].children \o [k \in 1..Len(kids) |-> ElementAst(p, d, kids[k])])

\* return <elements>: nothing returned, the one root, or the roots in a fragment.
ReturnOf(p, d) ==
  LET IsRoot(j) == p[j] = 0
      roots == SelectSeq([j \in 1..Len(d) |-> j], IsRoot)
      asts  == [k \in 1..Len(roots) |-> ElementAst(p, d, roots[k])]
  IN IF Len(asts) = 0 THEN <<>>
     ELSE IF Len(asts) = 1 THEN <<asts[1]>>
     ELSE <<JSXFragment(asts)>>

Forests(maxNodes) ==
  UNION {{ReturnOf(p, d) : p \in ParentVectors(n), d \in [1..n -> ElementPool]} : n \in 0..maxNodes}

\* The statement lists the parser accepts: a name is declared once.
StatementLists(maxStmts) ==
  UNION {{stmts \in [1..n -> StatementPool] :
            \A i, j \in 1..n :
              (i < j /\ stmts[i] = stmts[j]) => stmts[i].type # "VariableDeclaration"}
         : n \in 0..maxStmts}

ReactImports ==
  <<ImportDeclaration(<<S_useState, S_useRef, S_useEffect, S_useLayoutEffect, S_useCallback>>,
                      S_react),
    ImportDeclaration(<<S_useStore>>, S_zustand)>>

BodyOf(stmts, returned) ==
  BlockStatement([i \in 1..Len(stmts) |-> Relocate(stmts[i], i)]
                 \o [i \in 1..Len(returned) |-> ReturnStatement(returned[i])])

\* export default function App() { ... }
FunctionComponent(stmts, returned) ==
  File(ReactImports
       \o <<ExportDefaultDeclaration(FunctionDeclaration(S_App, BodyOf(stmts, returned)))>>)

\* const App = () => { ... }; export default App;
ArrowComponent(stmts, returned) ==
  File(ReactImports
       \o <<VariableDeclaration(Identifier(S_App),
                                ArrowFunctionExpression(BodyOf(stmts, returned))),
            ExportDefaultDeclaration(Identifier(S_App))>>)

\* const App = () => <element>; export default App;
ArrowExpressionComponent(returned) ==
  File(ReactImports
       \o <<VariableDeclaration(Identifier(S_App), ArrowFunctionExpression(returned[1])),
            ExportDefaultDeclaration(Identifier(S_App))>>)

\* function App() { ... }  (no export)
UnexportedComponent(stmts, returned) ==
  File(ReactImports \o <<FunctionDeclaration(S_App, BodyOf(stmts, returned))>>)

\* export default () => { ... };
AnonymousComponent(stmts, returned) ==
  File(ReactImports
       \o <<ExportDefaultDeclaration(ArrowFunctionExpression(BodyOf(stmts, returned)))>>)

\* A source text, by what it is written from: its form, its statements, what it
\* returns; `parses` tells whether the parser accepts it.
Parsed(form, stmts, returned) ==
  [parses   |-> TRUE,
   fileName |-> Null,
   form     |-> form,
   stmts    |-> stmts,
   returned |-> returned]

\* A text the parser rejects, such as `... return <div>; }` with the tag left open.
Unparsable ==
  [parses |-> FALSE, fileName |-> Null, form |-> "unterminated", stmts |-> <<>>,
   returned |-> <<>>]

Sources(maxStmts, maxJsxNodes) ==
  {Parsed(form, s, r) :
     form \in {"function", "arrow"}, s \in StatementLists(maxStmts), r \in Forests(maxJsxNodes)}
  \cup {Parsed("arrowExpression", <<>>, r) : r \in Forests(maxJsxNodes) \ {<<>>}}
  \cup {Unparsable}

\* The texts that name no component to the resolver: nothing is exported, or the
\* default export is a function without a name.
UnnamedSources(maxStmts, maxJsxNodes) ==
  {Parsed(form, s, r) :
     form \in {"unexported", "anonymous"}, s \in StatementLists(maxStmts),
     r \in Forests(maxJsxNodes)}

\* The tree the parser returns for a text it accepts.
AstOf(source) ==
  CASE source.form = "function" -> FunctionComponent(source.stmts, source.returned)
    [] source.form = "arrow" -> ArrowComponent(source.stmts, source.returned)
    [] source.form = "arrowExpression" -> ArrowExpressionComponent(source.returned)
    [] source.form = "unexported" -> UnexportedComponent(source.stmts, source.returned)
    [] source.form = "anonymous" -> AnonymousComponent(source.stmts, source.returned)

SyntaxError == Node("SyntaxError", <<>>, <<>>, <<>>, NoLoc)

ParseSourceToAst(source) == IF source.parses THEN AstOf(source) ELSE SyntaxError

\* mapping(source, fileName) when the parser returns a tree.
Mapping(source) ==
  LET ast        == ParseSourceToAst(source)
      importMap  == CollectImportMap(ast)
      exportInfo == CollectExportedComponents(ast)
      primaryComponentName == PickPrimaryComponent(exportInfo, source.fileName)
      body       == AnalyzeComponentBody(ast, primaryComponentName, importMap)
  IN [fileName      |-> source.fileName,
      componentName |-> primaryComponentName,
      hooks         |-> body.hooks,
      effects       |-> body.effects,
      callbacks     |-> body.callbacks,
      jsxNodes      |-> body.jsxNodes,
      meta          |-> [exportedComponents |-> exportInfo.namedExports,
                         defaultExport      |-> exportInfo.defaultExport],
      errors        |-> <<>>,
      calledVariableNames |-> body.calledVariableNames]

\* mapping has no try/catch: the parser's SyntaxError leaves it as an exception.
MappingThrows(source) == ParseSourceToAst(source) = SyntaxError

---------------------------------------------------------------------------
(* buildGraph.ts (src/unnamed/part_002) *)

\* mappingResult === null
NullResult == [null |-> TRUE]

IsNullResult(mappingResult) == "null" \in DOMAIN mappingResult

\* Columns that are not evenly spaced.
BuildColumnXUneven ==
  [independent |-> 80, state |-> 300, variable |-> 520, effect |-> 740, jsx |-> 1000]

BuildColumnX ==
  LET base == 80
      gap  == 220
  IN [independent |-> base,
      state       |-> base + gap,
      variable    |-> base + gap * 2,
      effect      |-> base + gap * 3,
      jsx         |-> base + gap * 4]

\* `${kind}-${item.id}`
NodeId(kind, itemId) == <<kind>> \o itemId

\* An absent jsxParentId (undefined).
NoNodeId == <<"undefined", "", 0>>

LayoutColumnNodes(items, kind, x, startY, gapY) ==
  [index \in 1..Len(items) |->
     [id     |-> NodeId(kind, items[index].id),
      label  |-> items[index].label,
      kind   |-> kind,
      x      |-> x,
      y      |-> startY + (index - 1) * gapY,
      width  |-> 120,
      height |-> 32,
      meta   |-> items[index].meta]]

\* An edge id that also counts the calls made before this one.
EdgeIdNumbered(tag, a, b, name) ==
  [tag |-> tag, a |-> a, b |-> b, name |-> name \o [i \in 1..Len(callLog) |-> "'"]]

\* An edge id `${tag}-${a}-${b}-${name}` (`${tag}-${a}-${b}` when name is <<>>).
EdgeId(tag, a, b, name) == [tag |-> tag, a |-> a, b |-> b, name |-> name]

\* The edge the code pushes from node `from`'s right side to node `to`'s left side.
\* An edge whose target end names no node.
EdgeDangling(id, from, to, kind, label) ==
  [id    |-> id,
   from  |-> [nodeId |-> from.id, x |-> from.x + from.width \div 2, y |-> from.y],
   to    |-> [nodeId |-> NoNodeId, x |-> to.x - to.width \div 2, y |-> to.y],
   kind  |-> kind,
   label |-> label]

Edge(id, from, to, kind, label) ==
  [id    |-> id,
   from  |-> [nodeId |-> from.id, x |-> from.x + from.width \div 2, y |-> from.y],
   to    |-> [nodeId |-> to.id, x |-> to.x - to.width \div 2, y |-> to.y],
   kind  |-> kind,
   label |-> label]

\* The name after "set" with its first letter left in upper case.
SetterStateNameKeepCase(setter) ==
  IF IsSetterName(setter) THEN SubSeq(setter, 4, Len(setter)) ELSE setter

\* setter.match(/^set([A-Z].*)/): match[1] with its first letter lower-cased, else setter.
SetterStateName(setter) ==
  IF IsSetterName(setter)
  THEN <<ToLowerCaseChar(setter[4])>> \o SubSeq(setter, 5, Len(setter))
  ELSE setter

\* stateNodes.find((n) => n.label.startsWith(name)) as an index (0: undefined).
FindStateNode(stateNodes, name) ==
  FirstTrue([i \in 1..Len(stateNodes) |-> StartsWith(stateNodes[i].label, name)])

\* independentNodes.find((n) => n.label === name) as an index (0: undefined).
FindRefNode(independentNodes, name) ==
  FirstTrue([i \in 1..Len(independentNodes) |-> independentNodes[i].label = name])

IsRefHook(h) == h.hookKind = K_useRef
IsStateHook(h) == h.hookKind \in {K_useState, K_zustand, K_reactQuery}

IndependentNodes(mappingResult, colX) ==
  LET hooks == SelectSeq(mappingResult.hooks, IsRefHook)
  IN LayoutColumnNodes(
       [i \in 1..Len(hooks) |->
          [id    |-> hooks[i].id,
           label |-> hooks[i].name,
           meta  |-> [hookKind |-> hooks[i].hookKind, scope |-> hooks[i].scope]]],
       "independent", colX.independent, 80, 50)

StateNodes(mappingResult, colX) ==
  LET hooks == SelectSeq(mappingResult.hooks, IsStateHook)
  IN LayoutColumnNodes(
       [i \in 1..Len(hooks) |->
          [id    |-> hooks[i].id,
           label |-> IF hooks[i].scope = "global" THEN hooks[i].name \o S_global
                     ELSE hooks[i].name,
           meta  |-> [hookKind |-> hooks[i].hookKind, scope |-> hooks[i].scope]]],
       "state", colX.state, 80, 40)

\* meta: { type, ...record } is kept as the pair of the type and the record.
EffectNodes(mappingResult, colX) ==
  LET es  == mappingResult.effects
      cbs == mappingResult.callbacks
  IN LayoutColumnNodes(
       [i \in 1..Len(es) |->
          [id |-> es[i].id, label |-> es[i].hookKind,
           meta |-> [type |-> "effect", record |-> es[i]]]]
       \o
       [i \in 1..Len(cbs) |->
          [id |-> cbs[i].id,
           label |-> IF cbs[i].name = Null THEN S_callback ELSE cbs[i].name,
           meta |-> [type |-> "callback", record |-> cbs[i]]]],
       "effect", colX.effect, 80, 40)

\* The element nodes: grouped by depth, the groups in ascending depth, each group in
\* list order.
JsxGraphNodes(mappingResult, colX) ==
  LET items  == mappingResult.jsxNodes
      depths == {items[i].depth : i \in 1..Len(items)}
      Group(depth) == LET InGroup(item) == item.depth = depth IN SelectSeq(items, InGroup)
      NodesOf(depth) ==
        LET group == Group(depth)
        IN [index \in 1..Len(group) |->
              [id     |-> NodeId("jsx", group[index].id),
               label  |-> group[index].component,
               kind   |-> "jsx",
               x      |-> colX.jsx + depth * 160,
               y      |-> 80 + depth * 80 + (index - 1) * 32,
               width  |-> 120,
               height |-> 32,
               meta   |-> [depth       |-> group[index].depth,
                           props       |-> group[index].props,
                           refProps    |-> group[index].refProps,
                           jsxParentId |-> IF group[index].parentId = NullId THEN NoNodeId
                                           ELSE NodeId("jsx", group[index].parentId)]]]
      maxDepth == IF depths = {} THEN 0 ELSE CHOOSE d \in depths : \A e \in depths : e <= d
  IN Flatten([k \in 1..(maxDepth + 1) |-> NodesOf(k - 1)])

\* The edges pushed for one effect: dependencies, ref reads, setters, ref writes.
EffectEdges(effect, effectNode, stateNodes, independentNodes) ==
  LET DepEdge(dep) ==
        LET i == FindStateNode(stateNodes, dep.name)
        IN IF i = 0 THEN <<>>
           ELSE <<Edge(EdgeId("dep", stateNodes[i].id, effectNode.id, dep.name),
                       stateNodes[i], effectNode, "state-dependency", dep.name)>>
      RefReadEdge(refName) ==
        LET i == FindRefNode(independentNodes, refName)
        IN IF i = 0 THEN <<>>
           ELSE <<Edge(EdgeId("dep-ref", independentNodes[i].id, effectNode.id, refName),
                       independentNodes[i], effectNode, "state-dependency", refName)>>
      SetterEdge(setter) ==
        LET i == FindStateNode(stateNodes, SetterStateName(setter))
        IN IF i = 0 THEN <<>>
           ELSE <<Edge(EdgeId("mut", effectNode.id, stateNodes[i].id, setter),
                       effectNode, stateNodes[i], "state-mutation", setter)>>
      RefWriteEdge(refName) ==
        LET i == FindRefNode(independentNodes, refName)
        IN IF i = 0 THEN <<>>
           ELSE <<Edge(EdgeId("mut-ref", effectNode.id, independentNodes[i].id, refName),
                       effectNode, independentNodes[i], "state-mutation", refName)>>
  IN Flatten([k \in 1..Len(effect.dependencies) |-> DepEdge(effect.dependencies[k])])
     \o Flatten([k \in 1..Len(effect.refReads) |-> RefReadEdge(effect.refReads[k])])
     \o Flatten([k \in 1..Len(effect.setters) |-> SetterEdge(effect.setters[k])])
     \o Flatten([k \in 1..Len(effect.refWrites) |-> RefWriteEdge(effect.refWrites[k])])

\* The edges pushed for one callback: its setters.
CallbackEdges(cb, cbNode, stateNodes) ==
  LET SetterEdge(setter) ==
        LET i == FindStateNode(stateNodes, SetterStateName(setter))
        IN IF i = 0 THEN <<>>
           ELSE <<Edge(EdgeId("cb-mut", cbNode.id, stateNodes[i].id, setter),
                       cbNode, stateNodes[i], "state-mutation", setter)>>
  IN Flatten([k \in 1..Len(cb.setters) |-> SetterEdge(cb.setters[k])])

\* The edge pushed for one attribute-bound name of one element node (at most one).
\* The edge for a bound name when the ref attribute is not told from other attributes.
JsxPropEdgeAnyAttr(jsxNode, name, stateNodes, independentNodes) ==
  LET r == FindRefNode(independentNodes, name)
      st == FindStateNode(stateNodes, name)
  IN IF r # 0
     THEN <<Edge(EdgeId("jsx-ref-prop", independentNodes[r].id, jsxNode.id, name),
                 independentNodes[r], jsxNode, "state-dependency", name)>>
     ELSE IF st # 0
     THEN <<Edge(EdgeId("jsx-prop", stateNodes[st].id, jsxNode.id, name),
                 stateNodes[st], jsxNode, "state-dependency", name)>>
     ELSE <<>>

JsxPropEdge(jsxNode, name, stateNodes, independentNodes) ==
  LET r == FindRefNode(independentNodes, name)
      st == FindStateNode(stateNodes, name)
      isRefAttr == name \in Range(jsxNode.meta.refProps)
  IN IF r # 0 /\ isRefAttr
     THEN <<Edge(EdgeId("jsx-ref-attr", jsxNode.id, independentNodes[r].id, name),
                 jsxNode, independentNodes[r], "state-mutation", name)>>
     ELSE IF r # 0 /\ ~isRefAttr
     THEN <<Edge(EdgeId("jsx-ref-prop", independentNodes[r].id, jsxNode.id, name),
                 independentNodes[r], jsxNode, "state-dependency", name)>>
     ELSE IF st # 0
     THEN <<Edge(EdgeId("jsx-prop", stateNodes[st].id, jsxNode.id, name),
                 stateNodes[st], jsxNode, "state-dependency", name)>>
     ELSE <<>>

\* nodes.find((n) => n.id === id) as an index (0: undefined).
FindNodeById(nodes, id) == FirstTrue([i \in 1..Len(nodes) |-> nodes[i].id = id])

\* The parent-to-child edge pushed for one analysed element (none for a root).
JsxTreeEdge(jsx, jsxNodes) ==
  LET parent == FindNodeById(jsxNodes, NodeId("jsx", jsx.parentId))
      child  == FindNodeById(jsxNodes, NodeId("jsx", jsx.id))
  IN IF jsx.parentId = NullId THEN <<>>
     ELSE IF parent = 0 \/ child = 0 THEN <<>>
     ELSE <<Edge(EdgeId("jsx-tree", jsxNodes[parent].id, jsxNodes[child].id, <<>>),
                 jsxNodes[parent], jsxNodes[child], "flow", Null)>>

BuildGraphFromMappingResult(mappingResult) ==
  LET colX == BuildColumnX
  IN IF IsNullResult(mappingResult)
     THEN [nodes |-> <<>>, edges |-> <<>>, width |-> colX.jsx + 200, height |-> 800,
           colX |-> colX]
     ELSE
       LET independentNodes == IndependentNodes(mappingResult, colX)
           stateNodes  == StateNodes(mappingResult, colX)
           effectNodes == EffectNodes(mappingResult, colX)
           jsxNodes    == JsxGraphNodes(mappingResult, colX)
           effects     == mappingResult.effects
           callbacks   == mappingResult.callbacks
           EdgesOfEffect(effect) ==
             LET i == FindNodeById(effectNodes, NodeId("effect", effect.id))
             IN IF i = 0 THEN <<>>
                ELSE EffectEdges(effect, effectNodes[i], stateNodes, independentNodes)
           EdgesOfCallback(cb) ==
             LET i == FindNodeById(effectNodes, NodeId("effect", cb.id))
             IN IF i = 0 THEN <<>> ELSE CallbackEdges(cb, effectNodes[i], stateNodes)
           EdgesOfJsxNode(jsxNode) ==
             Flatten([k \in 1..Len(jsxNode.meta.props) |->
                        JsxPropEdge(jsxNode, jsxNode.meta.props[k], stateNodes, independentNodes)])
           lastJsxY == IF Len(jsxNodes) > 0 THEN jsxNodes[Len(jsxNodes)].y ELSE 600
       IN [nodes  |-> independentNodes \o stateNodes \o effectNodes \o jsxNodes,
           edges  |-> Flatten([k \in 1..Len(effects) |-> EdgesOfEffect(effects[k])])
                      \o Flatten([k \in 1..Len(callbacks) |-> EdgesOfCallback(callbacks[k])])
                      \o Flatten([k \in 1..Len(jsxNodes) |-> EdgesOfJsxNode(jsxNodes[k])])
                      \o Flatten([k \in 1..Len(mappingResult.jsxNodes) |->
                                    JsxTreeEdge(mappingResult.jsxNodes[k], jsxNodes)]),
           width  |-> colX.jsx + 200,
           height |-> lastJsxY + 120,
           colX   |-> colX]

---------------------------------------------------------------------------
(* RenderGraphSvg.tsx *)

STATE_FN_OFFSET_X == 70

\* String(n) for n >= 0.
RECURSIVE DecimalString(_)
DecimalString(n) ==
  LET digit == <<"0","1","2","3","4","5","6","7","8","9">>[(n % 10) + 1]
  IN IF n < 10 THEN <<digit>> ELSE Append(DecimalString(n \div 10), digit)

IsStateKind(n) == n.kind = "state"
IsJsxKind(n) == n.kind = "jsx"

\* nodeByHookId.get(hook.id): the id of the state node `state-${hook.id}` (NoNodeId:
\* undefined).
StateNodeOfHook(stateNodes, hook) ==
  IF \E i \in 1..Len(stateNodes) :
       stateNodes[i].id[1] = "state" /\ stateNodes[i].id = NodeId("state", hook.id)
  THEN NodeId("state", hook.id) ELSE NoNodeId

\* groupedByLoc.get(`${line}:${column}`), as the indices of its useState hooks.
UseStateHooksAt(hooks, loc) ==
  {i \in 1..Len(hooks) : hooks[i].hookKind = K_useState /\ hooks[i].definedAt = loc}

ValueHooks(hooks, group) == {i \in group : ~StartsWith(hooks[i].name, S_set)}
SetterHooks(hooks, group) == {i \in group : StartsWith(hooks[i].name, S_set)}

TheOne(set) == CHOOSE i \in set : TRUE

\* A group that becomes a paired row: one value hook, one setter hook, a node for
\* at least one of them.
IsPairGroup(hooks, stateNodes, group) ==
  /\ Cardinality(group) >= 2
  /\ Cardinality(ValueHooks(hooks, group)) = 1
  /\ Cardinality(SetterHooks(hooks, group)) = 1
  /\ ~(/\ StateNodeOfHook(stateNodes, hooks[TheOne(ValueHooks(hooks, group))]) = NoNodeId
       /\ StateNodeOfHook(stateNodes, hooks[TheOne(SetterHooks(hooks, group))]) = NoNodeId)

PairGroups(hooks, stateNodes) ==
  {group \in {UseStateHooksAt(hooks, hooks[i].definedAt) :
                 i \in {k \in 1..Len(hooks) : hooks[k].hookKind = K_useState}} :
     IsPairGroup(hooks, stateNodes, group)}

\* A row names its nodes by id (NoNodeId: the row has no such node).
PairRow(hooks, stateNodes, group) ==
  [orderKey  |-> (CHOOSE i \in group : \A j \in ValueHooks(hooks, group)
                                              \cup SetterHooks(hooks, group) : i <= j) - 1,
   stateNode |-> StateNodeOfHook(stateNodes, hooks[TheOne(ValueHooks(hooks, group))]),
   fnNode    |-> StateNodeOfHook(stateNodes, hooks[TheOne(SetterHooks(hooks, group))])]

\* The row of a hook outside every pair: a function when its name is called.
SingleRow(hook, index, node, calledVariableNames) ==
  [orderKey  |-> index - 1,
   stateNode |-> IF hook.name \in Range(calledVariableNames) THEN NoNodeId ELSE node,
   fnNode    |-> IF hook.name \in Range(calledVariableNames) THEN node ELSE NoNodeId]

SingleRows(mappingResult, stateNodes, paired) ==
  {SingleRow(mappingResult.hooks[i], i, StateNodeOfHook(stateNodes, mappingResult.hooks[i]),
             mappingResult.calledVariableNames) :
     i \in {k \in 1..Len(mappingResult.hooks) :
              /\ k \notin paired
              /\ StateNodeOfHook(stateNodes, mappingResult.hooks[k]) # NoNodeId}}

\* rows.sort((a, b) => a.orderKey - b.orderKey): the order keys are distinct.
SortRows(rows) ==
  [k \in 1..Cardinality(rows) |->
     CHOOSE r \in rows : Cardinality({q \in rows : q.orderKey < r.orderKey}) + 1 = k]

RowsOfGroups(mappingResult, stateNodes, groups) ==
  SortRows({PairRow(mappingResult.hooks, stateNodes, group) : group \in groups}
           \cup SingleRows(mappingResult, stateNodes, UNION groups))

\* The rows of buildStateFunctionRows, sorted by orderKey.
BuildStateFunctionRows(mappingResult, nodeList) ==
  IF IsNullResult(mappingResult) THEN <<>>
  ELSE IF mappingResult.hooks = <<>> THEN <<>>
  ELSE IF SelectSeq(nodeList, IsStateKind) = <<>> THEN <<>>
  ELSE RowsOfGroups(mappingResult, SelectSeq(nodeList, IsStateKind),
                    PairGroups(mappingResult.hooks, SelectSeq(nodeList, IsStateKind)))

\* nodeById.get(id) on the Map built by nodes.forEach(set): the last node with the id.
LastNodeById(nodes, id) ==
  IF \E i \in 1..Len(nodes) : nodes[i].id = id
  THEN CHOOSE i \in 1..Len(nodes) : nodes[i].id = id /\ \A j \in (i + 1)..Len(nodes) : nodes[j].id # id
  ELSE 0

\* An edge end moved to the centre of the node it names, when the layout holds it.
RefreshEnd(end, nodes, i) ==
  IF i = 0 THEN end ELSE [end EXCEPT !.x = nodes[i].x, !.y = nodes[i].y]

RefreshEdge(edge, nodes) ==
  [edge EXCEPT !.from = RefreshEnd(@, nodes, LastNodeById(nodes, edge.from.nodeId)),
               !.to   = RefreshEnd(@, nodes, LastNodeById(nodes, edge.to.nodeId))]

\* The last row that names the node in a column (0: none); rows are placed in order,
\* the state node of a row before its function node.
LastRowNaming(ids, id) ==
  IF \E k \in 1..Len(ids) : ids[k] = id
  THEN CHOOSE k \in 1..Len(ids) : ids[k] = id /\ \A j \in (k + 1)..Len(ids) : ids[j] # id
  ELSE 0

PlaceNode(node, asState, asFn, stateX) ==
  IF asFn # 0 /\ asState <= asFn
  THEN [node EXCEPT !.x = stateX + STATE_FN_OFFSET_X, !.y = 80 + (asFn - 1) * 40]
  ELSE IF asState # 0
  THEN [node EXCEPT !.x = stateX - STATE_FN_OFFSET_X, !.y = 80 + (asState - 1) * 40]
  ELSE node

\* Rows that move the node at their own place in the node list, whatever it is.
MoveRowNodesByPlace(nodes, rows, stateX) ==
  [i \in 1..Len(nodes) |->
     IF i <= Len(rows) THEN PlaceNode(nodes[i], i, 0, stateX) ELSE nodes[i]]

\* nextNodes after rows.forEach: a row moves the node nodeById holds for the id.
MoveRowNodes(nodes, rows, stateX) ==
  [i \in 1..Len(nodes) |->
     IF LastNodeById(nodes, nodes[i].id) # i THEN nodes[i]
     ELSE PlaceNode(nodes[i],
                    LastRowNaming([k \in 1..Len(rows) |-> rows[k].stateNode], nodes[i].id),
                    LastRowNaming([k \in 1..Len(rows) |-> rows[k].fnNode], nodes[i].id),
                    stateX)]

LinkEdge(fnNode, stateNode, rowIndex) ==
  [id    |-> EdgeId("state-link", fnNode.id, stateNode.id, DecimalString(rowIndex)),
   from  |-> [nodeId |-> fnNode.id, x |-> fnNode.x, y |-> fnNode.y],
   to    |-> [nodeId |-> stateNode.id, x |-> stateNode.x, y |-> stateNode.y],
   kind  |-> "state-link",
   label |-> <<>>]

\* The link edge pushed for one row (none unless the row has both nodes).
LinkOfRow(row, rowIndex, nextNodes) ==
  IF row.stateNode = NoNodeId \/ row.fnNode = NoNodeId THEN <<>>
  ELSE IF LastNodeById(nextNodes, row.stateNode) = 0 \/ LastNodeById(nextNodes, row.fnNode) = 0
       THEN <<>>
  ELSE <<LinkEdge(nextNodes[LastNodeById(nextNodes, row.fnNode)],
                  nextNodes[LastNodeById(nextNodes, row.stateNode)], rowIndex)>>

LinkRows(graph, rows, nextNodes) ==
  [graph EXCEPT
     !.nodes = nextNodes,
     !.edges = [e \in 1..Len(graph.edges) |-> RefreshEdge(graph.edges[e], nextNodes)]
               \o Flatten([k \in 1..Len(rows) |-> LinkOfRow(rows[k], k - 1, nextNodes)])]

PlaceRows(graph, rows) ==
  IF rows = <<>> THEN graph
  ELSE LinkRows(graph, rows, MoveRowNodes(graph.nodes, rows, graph.colX.state))

ApplyStateFunctionLayout(graph, mappingResult) ==
  IF IsNullResult(mappingResult) THEN graph
  ELSE IF SelectSeq(graph.nodes, IsStateKind) = <<>> THEN graph
  ELSE PlaceRows(graph, BuildStateFunctionRows(mappingResult, graph.nodes))

\* The neighbours of a node: its children and the node it names as parent.
GetChildrenAndParent(jsxNodes, node) ==
  LET IsNear(child) ==
        \/ jsxNodes[LastNodeById(jsxNodes, child.id)].meta.jsxParentId = node.id
        \/ jsxNodes[LastNodeById(jsxNodes, node.id)].meta.jsxParentId = child.id
  IN SelectSeq(jsxNodes, IsNear)

\* getChildren(node): the jsx nodes whose recorded parent id is the node's id.
GetChildren(jsxNodes, node) ==
  LET IsChild(child) ==
        jsxNodes[LastNodeById(jsxNodes, child.id)].meta.jsxParentId = node.id
  IN SelectSeq(jsxNodes, IsChild)

\* layoutSubtree returns the rows it used; `placed` lists its newNodePositions.set
\* calls in order. LayoutChildren is its loop over the children: the first child
\* starts on the parent's row, every later child below what was laid out so far.
RECURSIVE LayoutSubtree(_, _, _, _, _)
RECURSIVE LayoutChildren(_, _, _, _, _)
\* A subtree that counts a row of its own on top of the rows of its children.
LayoutSubtreeOwnRow(jsxNodes, node, depth, rowStart, baseX) ==
  LET here     == [id |-> node.id, x |-> baseX + depth * 160, y |-> 80 + rowStart * 40]
      children == GetChildren(jsxNodes, node)
      below    == LayoutChildren(jsxNodes, children, depth + 1, rowStart, baseX)
  IN IF children = <<>>
     THEN [used |-> 1, placed |-> <<here>>]
     ELSE [used |-> below.cursorRow - rowStart + 1, placed |-> <<here>> \o below.placed]

LayoutSubtree(jsxNodes, node, depth, rowStart, baseX) ==
  LET here     == [id |-> node.id, x |-> baseX + depth * 160, y |-> 80 + rowStart * 40]
      children == GetChildren(jsxNodes, node)
      below    == LayoutChildren(jsxNodes, children, depth + 1, rowStart, baseX)
  IN IF children = <<>>
     THEN [used |-> 1, placed |-> <<here>>]
     ELSE [used   |-> IF below.cursorRow - rowStart > 1 THEN below.cursorRow - rowStart ELSE 1,
           placed |-> <<here>> \o below.placed]

\* A loop that gives every child one row, whatever its subtree used.
RECURSIVE LayoutChildrenOneRowEach(_, _, _, _, _)
LayoutChildrenOneRowEach(jsxNodes, children, depth, cursorRow, baseX) ==
  IF children = <<>> THEN [cursorRow |-> cursorRow, placed |-> <<>>]
  ELSE LET first == LayoutSubtree(jsxNodes, Head(children), depth, cursorRow, baseX)
           rest  == LayoutChildrenOneRowEach(jsxNodes, Tail(children), depth, cursorRow + 1,
                                             baseX)
       IN [cursorRow |-> rest.cursorRow, placed |-> first.placed \o rest.placed]

\* A loop that never moves its cursor: every child starts on the parent's row.
RECURSIVE LayoutChildrenNoAdvance(_, _, _, _, _)
LayoutChildrenNoAdvance(jsxNodes, children, depth, cursorRow, baseX) ==
  IF children = <<>> THEN [cursorRow |-> cursorRow, placed |-> <<>>]
  ELSE LET first == LayoutSubtree(jsxNodes, Head(children), depth, cursorRow, baseX)
           rest  == LayoutChildrenNoAdvance(jsxNodes, Tail(children), depth, cursorRow, baseX)
       IN [cursorRow |-> cursorRow + 1, placed |-> first.placed \o rest.placed]

LayoutChildren(jsxNodes, children, depth, cursorRow, baseX) ==
  IF children = <<>> THEN [cursorRow |-> cursorRow, placed |-> <<>>]
  ELSE LET first == LayoutSubtree(jsxNodes, Head(children), depth, cursorRow, baseX)
           rest  == LayoutChildren(jsxNodes, Tail(children), depth, cursorRow + first.used, baseX)
       IN [cursorRow |-> rest.cursorRow, placed |-> first.placed \o rest.placed]

\* The largest of `floor` and the values of a sequence of numbers.
RECURSIVE MaxOver(_, _)
MaxOver(floor, values) ==
  IF values = <<>> THEN floor
  ELSE MaxOver(IF Head(values) > floor THEN Head(values) ELSE floor, Tail(values))

ApplyJsxTreeLayout(graph) ==
  LET nodes    == graph.nodes
      jsxNodes == SelectSeq(nodes, IsJsxKind)
      ParentOf(node) == jsxNodes[LastNodeById(jsxNodes, node.id)].meta.jsxParentId
      IsRoot(node) == ParentOf(node) = NoNodeId \/ LastNodeById(jsxNodes, ParentOf(node)) = 0
      rootJsxNodes == SelectSeq(jsxNodes, IsRoot)
      \* the roots are laid out like the children of one subtree, from row 0
      placed   == LayoutChildren(jsxNodes, rootJsxNodes, 0, 0, graph.colX.jsx).placed
      PosOf(id) ==
        IF \E k \in 1..Len(placed) : placed[k].id = id
        THEN CHOOSE k \in 1..Len(placed) :
               placed[k].id = id /\ \A j \in (k + 1)..Len(placed) : placed[j].id # id
        ELSE 0
      newNodes == [i \in 1..Len(nodes) |->
                     IF PosOf(nodes[i].id) = 0 THEN nodes[i]
                     ELSE [nodes[i] EXCEPT !.x = placed[PosOf(nodes[i].id)].x,
                                           !.y = placed[PosOf(nodes[i].id)].y]]
  IN IF jsxNodes = <<>> THEN graph
     ELSE [graph EXCEPT
             !.nodes  = newNodes,
             !.edges  = [e \in 1..Len(graph.edges) |-> RefreshEdge(graph.edges[e], newNodes)],
             !.width  = MaxOver(graph.width,
                                [i \in 1..Len(newNodes) |->
                                   newNodes[i].x + newNodes[i].width \div 2 + 40]),
             !.height = MaxOver(graph.height,
                                [i \in 1..Len(newNodes) |->
                                   newNodes[i].y + newNodes[i].height \div 2 + 40])]

---------------------------------------------------------------------------
(* The page: handleAnalyze runs mapping on the source text and stores its  *)
(* result; RenderGraphSvg turns the stored result into a layout through    *)
(* buildGraphFromMappingResult, applyStateFunctionLayout and               *)
(* applyJsxTreeLayout.                                                      *)

NoWalk == [jsxStack |-> <<>>, result |-> <<>>, open |-> <<>>, openAtEntry |-> <<>>,
           enclosing |-> <<>>]
NoEffectIn == [form |-> "none", exprs |-> <<>>, deps |-> <<>>, globals |-> {}]
NoEffectOut == [null |-> TRUE]

Init ==
  /\ src \in Sources(MaxStmts, MaxJsxNodes)
  /\ pc = "source"
  /\ result = NullResult
  /\ layout = BuildGraphFromMappingResult(NullResult)
  /\ walk = NoWalk
  /\ effectIn = NoEffectIn
  /\ effectOut = NoEffectOut
  /\ callLog = <<>>

\* handleAnalyze: const result = mapping(source); setMappingResult(result);
\* an exception of mapping leaves the handler before the result is stored.
HandleAnalyze ==
  /\ pc = "source"
  /\ IF MappingThrows(src)
     THEN pc' = "thrown" /\ UNCHANGED result
     ELSE pc' = "mapped" /\ result' = Mapping(src)
  /\ UNCHANGED <<src, layout, walk, effectIn, effectOut, callLog>>

BuildGraph ==
  /\ pc \in {"mapped", "thrown"}
  /\ layout' = BuildGraphFromMappingResult(result)
  /\ pc' = "built"
  /\ UNCHANGED <<src, result, walk, effectIn, effectOut, callLog>>

StateFunctionLayout ==
  /\ pc = "built"
  /\ layout' = ApplyStateFunctionLayout(layout, result)
  /\ pc' = "rows"
  /\ UNCHANGED <<src, result, walk, effectIn, effectOut, callLog>>

JsxTreeLayout ==
  /\ pc = "rows"
  /\ layout' = ApplyJsxTreeLayout(layout)
  /\ pc' = "laid"
  /\ UNCHANGED <<src, result, walk, effectIn, effectOut, callLog>>

Next == HandleAnalyze \/ BuildGraph \/ StateFunctionLayout \/ JsxTreeLayout

Spec == Init /\ [][Next]_vars

\* The pipeline on a text in which no primary component is found.
InitNoPrimary ==
  /\ src \in UnnamedSources(MaxStmts, MaxJsxNodes)
  /\ pc = "source"
  /\ result = NullResult
  /\ layout = BuildGraphFromMappingResult(NullResult)
  /\ walk = NoWalk
  /\ effectIn = NoEffectIn
  /\ effectOut = NoEffectOut
  /\ callLog = <<>>

SpecNoPrimary == InitNoPrimary /\ [][Next]_vars

\* The pipeline on a component that returns up to MaxLayoutNodes nested <div>
\* elements and declares nothing: function App() { return <elements>; }
MaxLayoutNodes == 5

TreeSources(maxNodes) ==
  UNION {{Parsed("function", <<>>, ReturnOf(p, [i \in 1..n |-> Decor(S_div, <<>>, <<>>)])) :
            p \in ParentVectors(n)} : n \in 0..maxNodes}

InitJsxLayout ==
  /\ src \in TreeSources(MaxLayoutNodes)
  /\ pc = "source"
  /\ result = NullResult
  /\ layout = BuildGraphFromMappingResult(NullResult)
  /\ walk = NoWalk
  /\ effectIn = NoEffectIn
  /\ effectOut = NoEffectOut
  /\ callLog = <<>>

SpecJsxLayout == InitJsxLayout /\ [][Next]_vars

\* The pipeline on a component that declares up to MaxRefs refs, one per line, and
\* returns at most one element:
\*   const r1Ref = useRef(0); const r2Ref = useRef(0); ... return <element>;
MaxRefs == 13

TallSources(maxRefs) ==
  {Parsed("function", [i \in 1..n |-> StmtUseRef(<<"r">> \o DecimalString(i) \o S_Ref)], r) :
     n \in 0..maxRefs, r \in Forests(1)}

InitTall ==
  /\ src \in TallSources(MaxRefs)
  /\ pc = "source"
  /\ result = NullResult
  /\ layout = BuildGraphFromMappingResult(NullResult)
  /\ walk = NoWalk
  /\ effectIn = NoEffectIn
  /\ effectOut = NoEffectOut
  /\ callLog = <<>>

SpecTall == InitTall /\ [][Next]_vars

\* The pipeline on components whose state names begin alike: `settings` begins with
\* "set", `counter` begins with `count`.
NamePool ==
  { \* const [settings, setSettings] = useState(0);
    StmtUseState(S_settings, S_setSettings),
    \* const [counter, setCounter] = useState(0);
    StmtUseState(S_counter, S_setCounter),
    \* const [count, setCount] = useState(0);
    StmtUseState(S_count, S_setCount),
    \* useEffect(() => { setCount(count + 1); }, [count]);
    StmtEffect(S_useEffect, ArrowFunctionExpression(BlockOf(<<CallSetCount>>)),
               <<Identifier(S_count)>>) }

NameSources(maxStmts, maxJsxNodes) ==
  {Parsed("function", s, r) :
     s \in UNION {{stmts \in [1..n -> NamePool] : \A i, j \in 1..n : i < j => stmts[i] # stmts[j]}
                  : n \in 0..maxStmts},
     r \in Forests(maxJsxNodes)}

InitNames ==
  /\ src \in NameSources(MaxStmts, MaxJsxNodes)
  /\ pc = "source"
  /\ result = NullResult
  /\ layout = BuildGraphFromMappingResult(NullResult)
  /\ walk = NoWalk
  /\ effectIn = NoEffectIn
  /\ effectOut = NoEffectOut
  /\ callLog = <<>>

SpecNames == InitNames /\ [][Next]_vars

---------------------------------------------------------------------------
(* analyzeJsxTree, one visitor call at a time: the traversal enters an      *)
(* element, or leaves the innermost element it has entered and not left.    *)
(* Beside the visitor's own jsxStack and result, the walk records what the  *)
(* traversal did: `open` numbers the elements entered and not yet left (in  *)
(* document order), openAtEntry[n] is how many were open when element n was *)
(* entered, enclosing[n] is the innermost of them (0: none).                *)

InitJsxWalk ==
  /\ src = Unparsable
  /\ pc = "walk"
  /\ result = NullResult
  /\ layout = BuildGraphFromMappingResult(NullResult)
  /\ walk = NoWalk
  /\ effectIn = NoEffectIn
  /\ effectOut = NoEffectOut
  /\ callLog = <<>>

JSXElementEnter ==
  /\ pc = "walk"
  /\ Len(walk.openAtEntry) < MaxWalkNodes
  /\ \E d \in ElementPool :
       LET n       == Len(walk.openAtEntry) + 1
           element == JSXElement(JSXOpeningElement(JSXIdentifier(d.tag), d.attributes, At(n, 2)),
                                 d.children)
           w       == JsxEnter([jsxStack |-> walk.jsxStack, result |-> walk.result], element)
       IN walk' = [jsxStack    |-> w.jsxStack,
                   result      |-> w.result,
                   open        |-> Append(walk.open, n),
                   openAtEntry |-> Append(walk.openAtEntry, Len(walk.open)),
                   enclosing   |-> Append(walk.enclosing,
                                          IF walk.open = <<>> THEN 0
                                          ELSE walk.open[Len(walk.open)])]
  /\ UNCHANGED <<src, pc, result, layout, effectIn, effectOut, callLog>>

JSXElementExit ==
  /\ pc = "walk"
  /\ walk.open # <<>>
  /\ LET w == JsxExit([jsxStack |-> walk.jsxStack, result |-> walk.result])
     IN walk' = [walk EXCEPT !.jsxStack = w.jsxStack,
                             !.result   = w.result,
                             !.open     = SubSeq(walk.open, 1, Len(walk.open) - 1)]
  /\ UNCHANGED <<src, pc, result, layout, effectIn, effectOut, callLog>>

NextJsxWalk == JSXElementEnter \/ JSXElementExit

SpecJsxWalk == InitJsxWalk /\ [][NextJsxWalk]_vars

---------------------------------------------------------------------------
(* analyzeEffectCall on one call useEffect(callback, [deps]). The callback  *)
(* is an arrow function whose body is one expression (form "expression") or *)
(* a block of expression statements (form "block"); effectIn names the      *)
(* expressions of the body, the dependency names and the global-name set at *)
(* the moment of the call.                                                  *)

MaxBodyExprs == 2
MaxDeps == 2

\* The expressions an effect body is written from.
BodyExpr(tag) ==
  CASE tag = "setA"   -> Call0(S_setA, <<Identifier(S_x)>>)                  \* setA(x)
    [] tag = "write"  -> AssignmentExpression(                               \* fooRef.current = 1
                           MemberExpression(Identifier(S_fooRef), S_current), NumericLiteral)
    [] tag = "log"    -> CallExpression(                                     \* console.log(fooRef.current)
                           MemberExpression(Identifier(S_console), S_log),
                           <<MemberExpression(Identifier(S_fooRef), S_current)>>, NoLoc)
    [] tag = "member" -> MemberExpression(Identifier(S_fooRef), S_current)   \* fooRef.current
    [] tag = "copy"   -> AssignmentExpression(                               \* x = fooRef.current
                           Identifier(S_x), MemberExpression(Identifier(S_fooRef), S_current))

BodyTags == {"setA", "write", "log", "member", "copy"}

EffectInputs ==
  {[form |-> "expression", exprs |-> <<t>>, deps |-> d, globals |-> g] :
     t \in BodyTags,
     d \in UNION {[1..n -> {S_a, S_b}] : n \in 0..MaxDeps},
     g \in SUBSET {S_a, S_b}}
  \cup
  {[form |-> "block", exprs |-> e, deps |-> d, globals |-> g] :
     e \in UNION {[1..n -> BodyTags] : n \in 0..MaxBodyExprs},
     d \in UNION {[1..n -> {S_a, S_b}] : n \in 0..MaxDeps},
     g \in SUBSET {S_a, S_b}}

\* useEffect(() => <body>, [<deps>])
EffectCall(in) ==
  LET exprs == [i \in 1..Len(in.exprs) |-> BodyExpr(in.exprs[i])]
      body  == IF in.form = "expression" THEN exprs[1] ELSE BlockOf(exprs)
  IN CallExpression(Identifier(S_useEffect),
                    <<ArrowFunctionExpression(body),
                      ArrayExpression([i \in 1..Len(in.deps) |-> Identifier(in.deps[i])])>>,
                    At(1, 2))

InitEffect ==
  /\ src = Unparsable
  /\ pc = "effect"
  /\ result = NullResult
  /\ layout = BuildGraphFromMappingResult(NullResult)
  /\ walk = NoWalk
  /\ effectIn \in EffectInputs
  /\ effectOut = NoEffectOut
  /\ callLog = <<>>

AnalyzeEffect ==
  /\ pc = "effect"
  /\ effectOut = NoEffectOut
  /\ effectOut' = AnalyzeEffectCall(EffectCall(effectIn), EffectId(1), K_useEffect,
                                    effectIn.globals)
  /\ UNCHANGED <<src, pc, result, layout, walk, effectIn, callLog>>

NextEffect == AnalyzeEffect

SpecEffect == InitEffect /\ [][NextEffect]_vars

---------------------------------------------------------------------------
(* The layout functions called again: React runs the useMemo callback of    *)
(* RenderGraphSvg anew on every change of mappingResult (and twice in a row *)
(* under StrictMode), so each function is called more than once, and a      *)
(* later call may be given the argument an earlier call was given. callLog  *)
(* keeps every call: the function, its arguments, the layout it returned.   *)

MaxCalls == 2

Called(fn, arguments, out) == [fn |-> fn, arguments |-> arguments, out |-> out]

CallsOf(fn) == LET Is(c) == c.fn = fn IN SelectSeq(callLog, Is)

ParsedSources(maxStmts, maxJsxNodes) == {s \in Sources(maxStmts, maxJsxNodes) : s.parses}

InitRepeat ==
  /\ src \in ParsedSources(MaxStmts, MaxJsxNodes)
  /\ pc = "repeat"
  /\ result = Mapping(src)
  /\ layout = BuildGraphFromMappingResult(NullResult)
  /\ walk = NoWalk
  /\ effectIn = NoEffectIn
  /\ effectOut = NoEffectOut
  /\ callLog = <<>>

\* const base = buildGraphFromMappingResult(mappingResult);
CallBuildGraph ==
  /\ pc = "repeat"
  /\ Len(CallsOf("buildGraphFromMappingResult")) < MaxCalls
  /\ layout' = BuildGraphFromMappingResult(result)
  /\ callLog' = Append(callLog, Called("buildGraphFromMappingResult", <<result>>,
                                       BuildGraphFromMappingResult(result)))
  /\ UNCHANGED <<src, pc, result, walk, effectIn, effectOut>>

\* const withStateLayout = applyStateFunctionLayout(base, mappingResult);
\* base is what the first call of buildGraphFromMappingResult returned.
CallStateFunctionLayout ==
  /\ pc = "repeat"
  /\ Len(CallsOf("buildGraphFromMappingResult")) = MaxCalls
  /\ Len(CallsOf("applyStateFunctionLayout")) < MaxCalls
  /\ LET base == CallsOf("buildGraphFromMappingResult")[1].out
     IN /\ layout' = ApplyStateFunctionLayout(base, result)
        /\ callLog' = Append(callLog, Called("applyStateFunctionLayout", <<base, result>>,
                                             ApplyStateFunctionLayout(base, result)))
  /\ UNCHANGED <<src, pc, result, walk, effectIn, effectOut>>

\* return applyJsxTreeLayout(withStateLayout);
\* withStateLayout is what the first call of applyStateFunctionLayout returned.
CallJsxTreeLayout ==
  /\ pc = "repeat"
  /\ Len(CallsOf("applyStateFunctionLayout")) = MaxCalls
  /\ Len(CallsOf("applyJsxTreeLayout")) < MaxCalls
  /\ LET withStateLayout == CallsOf("applyStateFunctionLayout")[1].out
     IN /\ layout' = ApplyJsxTreeLayout(withStateLayout)
        /\ callLog' = Append(callLog, Called("applyJsxTreeLayout", <<withStateLayout>>,
                                             ApplyJsxTreeLayout(withStateLayout)))
  /\ UNCHANGED <<src, pc, result, walk, effectIn, effectOut>>

NextRepeat == CallBuildGraph \/ CallStateFunctionLayout \/ CallJsxTreeLayout

SpecRepeat == InitRepeat /\ [][NextRepeat]_vars

---------------------------------------------------------------------------
(* The pipeline with applyJsxTreeLayout taken one call of layoutSubtree at   *)
(* a time: applyJsxTreeLayout calls it for each root and it calls itself    *)
(* for each child, so the calls come in the order of its                    *)
(* newNodePositions.set calls. callLog keeps each call: the node, the depth *)
(* and the starting row it was given, the row count it returned and the     *)
(* positions set before it returned.                                        *)

\* The calls of layoutSubtree that applyJsxTreeLayout(graph) makes, in order of entry.
LayoutSubtreeCalls(graph) ==
  LET jsxNodes == SelectSeq(graph.nodes, IsJsxKind)
      ParentOf(node) == jsxNodes[LastNodeById(jsxNodes, node.id)].meta.jsxParentId
      IsRoot(node) == ParentOf(node) = NoNodeId \/ LastNodeById(jsxNodes, ParentOf(node)) = 0
      placed == LayoutChildren(jsxNodes, SelectSeq(jsxNodes, IsRoot), 0, 0, graph.colX.jsx).placed
  IN [k \in 1..Len(placed) |->
        [node     |-> jsxNodes[LastNodeById(jsxNodes, placed[k].id)],
         depth    |-> (placed[k].x - graph.colX.jsx) \div 160,
         rowStart |-> (placed[k].y - 80) \div 40]]

\* The next call of layoutSubtree(node, depth, rowStart).
CallLayoutSubtree ==
  /\ pc = "rows"
  /\ Len(callLog) < Len(LayoutSubtreeCalls(layout))
  /\ LET call == LayoutSubtreeCalls(layout)[Len(callLog) + 1]
     IN callLog' = Append(callLog,
                          Called("layoutSubtree", <<call.node.id, call.depth, call.rowStart>>,
                                 LayoutSubtree(SelectSeq(layout.nodes, IsJsxKind), call.node,
                                               call.depth, call.rowStart, layout.colX.jsx)))
  /\ UNCHANGED <<src, pc, result, layout, walk, effectIn, effectOut>>

\* applyJsxTreeLayout returns once the last root's call has returned.
ReturnJsxTreeLayout ==
  /\ pc = "rows"
  /\ Len(callLog) = Len(LayoutSubtreeCalls(layout))
  /\ layout' = ApplyJsxTreeLayout(layout)
  /\ pc' = "laid"
  /\ UNCHANGED <<src, result, walk, effectIn, effectOut, callLog>>

NextSubtree ==
  HandleAnalyze \/ BuildGraph \/ StateFunctionLayout \/ CallLayoutSubtree \/ ReturnJsxTreeLayout

SpecSubtree == InitJsxLayout /\ [][NextSubtree]_vars

---------------------------------------------------------------------------
(* applyJsxTreeLayout one call frame at a time, on a layout whose element  *)
(* nodes name any parent: none, an id outside the list, another node or    *)
(* themselves. The layout is a value handed to the function, so links that *)
(* buildGraphFromMappingResult never produces are inputs too. `walk` holds  *)
(* the roots still to lay out, currentRow, the frames of the calls of       *)
(* layoutSubtree that have not returned and the newNodePositions.set calls; *)
(* callLog starts with the call of applyJsxTreeLayout itself.               *)

MaxLinkedNodes == 3

\* The engine's call stack is finite: no call is entered beyond MaxFrames frames.
MaxFrames == 4

\* Layouts of n element nodes; links[i] is 0 for no parent, j for node j and n + 1
\* for an id that no node of the list has.
LinkedLayouts(maxNodes) ==
  UNION {{[BuildGraphFromMappingResult(NullResult) EXCEPT
             !.nodes = [i \in 1..n |->
                          [id     |-> NodeId("jsx", JsxId(i)),
                           label  |-> S_div,
                           kind   |-> "jsx",
                           x      |-> BuildColumnX.jsx,
                           y      |-> 80 + (i - 1) * 32,
                           width  |-> 120,
                           height |-> 32,
                           meta   |-> [depth |-> 0, props |-> <<>>, refProps |-> <<>>,
                                       jsxParentId |-> IF links[i] = 0 THEN NoNodeId
                                                       ELSE NodeId("jsx", JsxId(links[i]))]]]] :
            links \in [1..n -> 0..(n + 1)]} : n \in 0..maxNodes}

\* applyJsxTreeLayout(layout) has built its maps and rootJsxNodes and is about to
\* run the loop over the roots.
InitLinked ==
  /\ layout \in LinkedLayouts(MaxLinkedNodes)
  /\ src = Unparsable
  /\ pc = "subtrees"
  /\ result = NullResult
  /\ walk = LET jsxNodes == SelectSeq(layout.nodes, IsJsxKind)
                ParentOf(node) == jsxNodes[LastNodeById(jsxNodes, node.id)].meta.jsxParentId
                IsRoot(node) ==
                  ParentOf(node) = NoNodeId \/ LastNodeById(jsxNodes, ParentOf(node)) = 0
            IN [roots |-> SelectSeq(jsxNodes, IsRoot), currentRow |-> 0, frames |-> <<>>,
                positions |-> <<>>]
  /\ effectIn = NoEffectIn
  /\ effectOut = NoEffectOut
  /\ callLog = <<Called("applyJsxTreeLayout", <<layout>>, <<>>)>>

\* layoutSubtree(node, depth, rowStart) is entered, from the loop over the roots or
\* from the frame on top for its next child: it sets the node's position and reads
\* the node's children.
EnterSubtree ==
  /\ pc = "subtrees"
  /\ Len(walk.frames) < MaxFrames
  /\ IF walk.frames = <<>> THEN walk.roots # <<>>
     ELSE walk.frames[Len(walk.frames)].next <= Len(walk.frames[Len(walk.frames)].children)
  /\ LET jsxNodes == SelectSeq(layout.nodes, IsJsxKind)
         top      == walk.frames[Len(walk.frames)]
         node     == IF walk.frames = <<>> THEN Head(walk.roots) ELSE top.children[top.next]
         depth    == IF walk.frames = <<>> THEN 0 ELSE top.depth + 1
         rowStart == IF walk.frames = <<>> THEN walk.currentRow ELSE top.cursorRow
     IN /\ walk' = [walk EXCEPT
                      !.positions = Append(@, [id |-> node.id,
                                               x  |-> layout.colX.jsx + depth * 160,
                                               y  |-> 80 + rowStart * 40]),
                      !.frames = Append(@, [node |-> node, depth |-> depth,
                                            rowStart |-> rowStart,
                                            children |-> GetChildren(jsxNodes, node),
                                            next |-> 1, cursorRow |-> rowStart,
                                            call |-> Len(callLog) + 1])]
        /\ callLog' = Append(callLog, Called("layoutSubtree", <<node.id, depth, rowStart>>, <<>>))
  /\ UNCHANGED <<src, pc, result, layout, effectIn, effectOut>>

\* The call on top has laid out its last child and returns the rows it used: its
\* caller moves its cursor down by them and turns to the next child or root.
ReturnSubtree ==
  /\ pc = "subtrees"
  /\ walk.frames # <<>>
  /\ LET depthNow == Len(walk.frames)
         top      == walk.frames[depthNow]
         used     == IF top.children = <<>> THEN 1
                     ELSE IF top.cursorRow - top.rowStart > 1 THEN top.cursorRow - top.rowStart
                     ELSE 1
     IN /\ top.next > Len(top.children)
        /\ walk' = IF depthNow = 1
                   THEN [walk EXCEPT !.frames = <<>>, !.roots = Tail(@),
                                     !.currentRow = @ + used]
                   ELSE [walk EXCEPT
                           !.frames = [SubSeq(@, 1, depthNow - 1) EXCEPT
                                         ![depthNow - 1].cursorRow = @ + used,
                                         ![depthNow - 1].next = @ + 1]]
        /\ callLog' = [callLog EXCEPT ![top.call].out = <<used>>]
  /\ UNCHANGED <<src, pc, result, layout, effectIn, effectOut>>

\* The loop over the roots is over: the nodes take the positions set for them, the
\* edge ends follow their nodes and the canvas grows to hold every node.
FinishJsxTreeLayout ==
  /\ pc = "subtrees"
  /\ walk.frames = <<>>
  /\ walk.roots = <<>>
  /\ LET nodes  == layout.nodes
         placed == walk.positions
         PosOf(id) ==
           IF \E k \in 1..Len(placed) : placed[k].id = id
           THEN CHOOSE k \in 1..Len(placed) :
                  placed[k].id = id /\ \A j \in (k + 1)..Len(placed) : placed[j].id # id
           ELSE 0
         newNodes == [i \in 1..Len(nodes) |->
                        IF PosOf(nodes[i].id) = 0 THEN nodes[i]
                        ELSE [nodes[i] EXCEPT !.x = placed[PosOf(nodes[i].id)].x,
                                              !.y = placed[PosOf(nodes[i].id)].y]]
         returned ==
           IF SelectSeq(nodes, IsJsxKind) = <<>> THEN layout
           ELSE [layout EXCEPT
                   !.nodes  = newNodes,
                   !.edges  = [e \in 1..Len(layout.edges) |->
                                 RefreshEdge(layout.edges[e], newNodes)],
                   !.width  = MaxOver(layout.width,
                                      [i \in 1..Len(newNodes) |->
                                         newNodes[i].x + newNodes[i].width \div 2 + 40]),
                   !.height = MaxOver(layout.height,
                                      [i \in 1..Len(newNodes) |->
                                         newNodes[i].y + newNodes[i].height \div 2 + 40])]
     IN /\ layout' = returned
        /\ callLog' = [callLog EXCEPT ![1].out = <<returned>>]
  /\ pc' = "laid"
  /\ UNCHANGED <<src, result, walk, effectIn, effectOut>>

NextLinked == EnterSubtree \/ ReturnSubtree \/ FinishJsxTreeLayout

\* The function runs to its end without yielding: a step that can be taken is taken.
SpecLinked == InitLinked /\ [][NextLinked]_vars /\ WF_vars(NextLinked)

---------------------------------------------------------------------------
(* pickPrimaryComponent on the exports of a module and a file-name hint.    *)
(* mapping hands it collectExportedComponents(ast) and its own fileName     *)
(* argument. The modules export up to MaxExports of the names App, Foo and  *)
(* Bar, each as `export function X() {}` or in `export { X };`, after at    *)
(* most one default export; the hint is absent, a file name, or a path.     *)

MaxExports == 2

ExportNames == {S_App, S_Foo, S_Bar}

\* export default App;   export default function App() {}   export default () => {};
DefaultExports ==
  { <<>>,
    <<ExportDefaultDeclaration(Identifier(S_App))>>,
    <<ExportDefaultDeclaration(FunctionDeclaration(S_App, BlockStatement(<<>>)))>>,
    <<ExportDefaultDeclaration(ArrowFunctionExpression(BlockStatement(<<>>)))>> }

\* export function X() {}      export { X };
NamedExport(name, form) ==
  IF form = "declaration"
  THEN ExportNamedDeclaration(<<FunctionDeclaration(name, BlockStatement(<<>>))>>, <<>>)
  ELSE ExportNamedDeclaration(<<>>, <<name>>)

\* The export statements of a module: a name is exported once.
NamedExportLists(maxExports) ==
  UNION {{[i \in 1..n |-> NamedExport(names[i], forms[i])] :
            names \in {f \in [1..n -> ExportNames] : \A i, j \in 1..n : i # j => f[i] # f[j]},
            forms \in [1..n -> {"declaration", "specifiers"}]}
         : n \in 0..maxExports}

ExportModules(maxExports) ==
  {File(d \o e) : d \in DefaultExports, e \in NamedExportLists(maxExports)}

\* No hint, Foo.tsx, Foo, Foo.test.tsx, Bar.tsx, src/Foo.tsx, .tsx
FileNames ==
  { Null, S_Foo \o S_tsx, S_Foo, S_Foo \o S_test \o S_tsx, S_Bar \o S_tsx,
    S_srcDir \o S_Foo \o S_tsx, S_tsx }

InitPick ==
  /\ src = Unparsable
  /\ pc = "pick"
  /\ result = NullResult
  /\ layout = BuildGraphFromMappingResult(NullResult)
  /\ walk = NoWalk
  /\ effectIn = NoEffectIn
  /\ effectOut = NoEffectOut
  /\ callLog = <<>>

\* const exportInfo = collectExportedComponents(ast);
\* const primaryComponentName = pickPrimaryComponent(exportInfo, fileName);
PickPrimary ==
  /\ pc = "pick"
  /\ callLog = <<>>
  /\ \E ast \in ExportModules(MaxExports), fileName \in FileNames :
       callLog' = <<Called("pickPrimaryComponent",
                           <<CollectExportedComponents(ast), fileName>>,
                           PickPrimaryComponent(CollectExportedComponents(ast), fileName))>>
  /\ UNCHANGED <<src, pc, result, layout, walk, effectIn, effectOut>>

NextPick == PickPrimary

SpecPick == InitPick /\ [][NextPick]_vars

---------------------------------------------------------------------------
(* The hook records of one declaration `const <pattern> = <callee>(0);` in  *)
(* a component whose module imports the callee from a package, or from      *)
(* none: analyzeComponentBody on that module, as mapping calls it.          *)

HookCallees ==
  {S_useState, S_useRef, S_useReducer, S_useMemo, S_useStore, S_useQuery, S_useThing, S_setA,
   S_useEffect, S_useLayoutEffect, S_useCallback, S_useQueryStore, S_useMutation, S_Store}

\* Not imported, or imported from react, zustand, reactQuery, @tanstack/react-query,
\* @/zustand/reactQuery.
HookImportSources == {Null, S_react, S_zustand, S_reactQuery, S_tanstack, S_zustandQuery}

\* a      [a, b]      { x: a, y: b }
HookPattern(tag) ==
  CASE tag = "identifier" -> Identifier(S_a)
    [] tag = "array"      -> ArrayPattern(<<S_a, S_b>>)
    [] tag = "object"     -> ObjectPattern(<<ObjectProperty(S_x, S_a), ObjectProperty(S_name, S_b)>>)

HookPatterns == {"identifier", "array", "object"}

HookModule(callee, importSource, pattern) ==
  File((IF importSource = Null THEN <<>> ELSE <<ImportDeclaration(<<callee>>, importSource)>>)
       \o <<ExportDefaultDeclaration(FunctionDeclaration(S_App, BlockStatement(
              <<VariableDeclaration(HookPattern(pattern),
                                    CallExpression(Identifier(callee), <<NumericLiteral>>,
                                                   At(1, 10)))>>)))>>)

InitHook ==
  /\ src = Unparsable
  /\ pc = "hook"
  /\ result = NullResult
  /\ layout = BuildGraphFromMappingResult(NullResult)
  /\ walk = NoWalk
  /\ effectIn = NoEffectIn
  /\ effectOut = NoEffectOut
  /\ callLog = <<>>

\* analyzeComponentBody(ast, primaryComponentName, importMap)
InspectDeclaration ==
  /\ pc = "hook"
  /\ callLog = <<>>
  /\ \E callee \in HookCallees, importSource \in HookImportSources, pattern \in HookPatterns :
       LET ast == HookModule(callee, importSource, pattern)
       IN callLog' = <<Called("analyzeComponentBody", <<callee, importSource, pattern>>,
                              AnalyzeComponentBody(ast, S_App, CollectImportMap(ast)))>>
  /\ UNCHANGED <<src, pc, result, layout, walk, effectIn, effectOut>>

NextHook == InspectDeclaration

SpecHook == InitHook /\ [][NextHook]_vars

---------------------------------------------------------------------------
(* Properties of the pipeline (Spec).                                       *)

\* const [v, setV] = useState(x);
IsArrayUseState(stmt) ==
  /\ stmt.type = "VariableDeclaration"
  /\ Child(Child(stmt, "declarations"), "id").type = "ArrayPattern"
  /\ Child(Child(Child(stmt, "declarations"), "init"), "callee").name = S_useState

\* N: the array-destructured useState declarations of the component.
UseStateDeclarations(source) == Len(SelectSeq(source.stmts, IsArrayUseState))

IsUseStateHook(h) == h.hookKind = K_useState

\* mapping has returned and its result is the stored one.
Stored == ~IsNullResult(result)

\* C1: when the parser raises a syntax error on the source text, mapping does not
\* throw: it returns a fact model whose hooks, effects, callbacks and jsxNodes are
\* all empty and whose errors list has exactly one entry.
C1_SyntaxErrorBecomesOneErrorEntry ==
  (pc # "source" /\ ~src.parses) =>
     /\ pc # "thrown"
     /\ ~IsNullResult(result)
     /\ result.hooks = <<>> /\ result.effects = <<>>
     /\ result.callbacks = <<>> /\ result.jsxNodes = <<>>
     /\ Len(result.errors) = 1

\* The parser's exception has left handleAnalyze: no fact model was stored.
C1_Thrown == pc = "thrown" /\ ~src.parses /\ IsNullResult(result)

\* C2 (as the code has it): for a component with N declarations
\* `const [v, setV] = useState(x)`, the hooks list holds exactly 2N records of kind
\* useState, one for each name bound (v and setV), each with scope "local", and the
\* ids of all hook records are distinct.
C2_OneRecordPerBoundName ==
  Stored =>
    LET hs == SelectSeq(result.hooks, IsUseStateHook)
    IN /\ Len(hs) = 2 * UseStateDeclarations(src)
       /\ \A i \in 1..Len(hs) : hs[i].scope = "local"
       /\ \A i, j \in 1..Len(result.hooks) :
            i # j => result.hooks[i].id # result.hooks[j].id

\* C2 as stated: exactly N records of kind useState.
C2_OneRecordPerDeclaration ==
  Stored => Len(SelectSeq(result.hooks, IsUseStateHook)) = UseStateDeclarations(src)

\* Two declarations analysed: four useState records.
C2_TwoDeclarations ==
  /\ pc = "mapped"
  /\ UseStateDeclarations(src) = 2
  /\ Len(SelectSeq(result.hooks, IsUseStateHook)) = 4

\* const [count, setCount] = useState(0); useEffect(() => setCount(count + 1), [count]);
ScenarioStatements ==
  <<StmtUseState(S_count, S_setCount),
    StmtEffect(S_useEffect, ArrowFunctionExpression(CallSetCount), <<Identifier(S_count)>>)>>

IsScenario(source) == source.parses /\ source.stmts = ScenarioStatements

\* The edges of a kind that carry a label.
EdgesOf(graph, kind, label) ==
  LET Is(e) == e.kind = kind /\ e.label = label IN SelectSeq(graph.edges, Is)

\* The node ids of a kind and label.
NodeIdsOf(graph, kind, label) ==
  {graph.nodes[i].id : i \in {k \in 1..Len(graph.nodes) :
                                graph.nodes[k].kind = kind /\ graph.nodes[k].label = label}}

\* C3: for the scenario component, mapping followed by buildGraphFromMappingResult
\* yields one effect record with dependency count and setter setCount, exactly one
\* state-to-effect dependency edge labeled count, and exactly one effect-to-state
\* mutation edge labeled setCount.
C3_ScenarioEffectAndEdges ==
  (pc = "built" /\ IsScenario(src)) =>
     /\ Len(result.effects) = 1
     /\ result.effects[1].dependencies = <<[name |-> S_count, isGlobal |-> FALSE]>>
     /\ result.effects[1].setters = <<S_setCount>>
     /\ Len(EdgesOf(layout, "state-dependency", S_count)) = 1
     /\ EdgesOf(layout, "state-dependency", S_count)[1].from.nodeId
          \in NodeIdsOf(layout, "state", S_count)
     /\ EdgesOf(layout, "state-dependency", S_count)[1].to.nodeId
          \in NodeIdsOf(layout, "effect", S_useEffect)
     /\ Len(EdgesOf(layout, "state-mutation", S_setCount)) = 1
     /\ EdgesOf(layout, "state-mutation", S_setCount)[1].from.nodeId
          \in NodeIdsOf(layout, "effect", S_useEffect)
     /\ EdgesOf(layout, "state-mutation", S_setCount)[1].to.nodeId
          \in NodeIdsOf(layout, "state", S_count)

\* The scenario's graph: the dependency and its edge are there, the setter and the
\* mutation edge are not.
C3_ScenarioWithoutSetter ==
  /\ pc = "built" /\ IsScenario(src)
  /\ Len(result.effects) = 1
  /\ result.effects[1].dependencies = <<[name |-> S_count, isGlobal |-> FALSE]>>
  /\ result.effects[1].setters = <<>>
  /\ Len(EdgesOf(layout, "state-dependency", S_count)) = 1
  /\ \A i \in 1..Len(layout.edges) : layout.edges[i].kind # "state-mutation"

\* return <div>{count}</div>;
DivShowingCount ==
  ReturnOf(<<0>>, <<Decor(S_div, <<>>, <<JSXExpressionContainer(Identifier(S_count))>>)>>)

\* const [count, setCount] = useState(0); ... return <div>{count}</div>;
ShowsCount(source) ==
  /\ source.parses
  /\ StmtUseState(S_count, S_setCount) \in Range(source.stmts)
  /\ source.returned = DivShowingCount

\* C4: for a component that declares state count with useState and returns
\* <div>{count}</div>, the layout contains a dependency edge from the count state
\* node to the div element node.
C4_ChildExpressionEdge ==
  (pc \in {"built", "rows", "laid"} /\ ShowsCount(src)) =>
     \E i \in 1..Len(layout.edges) :
        /\ layout.edges[i].kind = "state-dependency"
        /\ layout.edges[i].from.nodeId \in NodeIdsOf(layout, "state", S_count)
        /\ layout.edges[i].to.nodeId \in NodeIdsOf(layout, "jsx", S_div)

\* The layout of such a component: the count node and the div node, and no edge
\* that ends at the div node.
C4_DivWithoutEdge ==
  /\ pc = "laid" /\ ShowsCount(src)
  /\ NodeIdsOf(layout, "state", S_count) # {}
  /\ NodeIdsOf(layout, "jsx", S_div) # {}
  /\ \A i \in 1..Len(layout.edges) :
       layout.edges[i].to.nodeId \notin NodeIdsOf(layout, "jsx", S_div)

\* C7: in every layout returned by buildGraphFromMappingResult, and in every layout
\* returned after applyStateFunctionLayout adds its link edges, no two edges have
\* the same id.
C7_EdgeIdsDistinct ==
  (pc \in {"built", "rows"}) =>
     \A i, j \in 1..Len(layout.edges) : i # j => layout.edges[i].id # layout.edges[j].id

\* Two dependency edges of one effect with one id, after the link edges were added.
C7_RepeatedDependencyEdge ==
  /\ pc = "rows"
  /\ \E i, j \in 1..Len(layout.edges) :
       /\ i # j
       /\ layout.edges[i].id = layout.edges[j].id
       /\ layout.edges[i].id.tag = "dep"
  /\ \E i \in 1..Len(layout.edges) : layout.edges[i].kind = "state-link"

\* C8: in every layout produced by the pipeline (buildGraphFromMappingResult, then
\* applyStateFunctionLayout, then applyJsxTreeLayout), each edge's from.nodeId and
\* to.nodeId are ids of nodes present in that layout's node list.
C8_EdgeEndsAreNodes ==
  \A i \in 1..Len(layout.edges) :
     /\ \E k \in 1..Len(layout.nodes) : layout.nodes[k].id = layout.edges[i].from.nodeId
     /\ \E k \in 1..Len(layout.nodes) : layout.nodes[k].id = layout.edges[i].to.nodeId

\* A finished layout with a link edge, a mutation edge and an element-tree edge.
C8_LaidOutWithEdges ==
  /\ pc = "laid"
  /\ \E i \in 1..Len(layout.edges) : layout.edges[i].kind = "state-link"
  /\ \E i \in 1..Len(layout.edges) : layout.edges[i].kind = "state-mutation"
  /\ \E i \in 1..Len(layout.edges) : layout.edges[i].kind = "flow"

---------------------------------------------------------------------------
(* Properties of analyzeEffectCall (SpecEffect).                            *)

Analyzed == effectOut # NoEffectOut

\* C5: for every effect whose dependency array is [a, b] and whose callback body
\* calls setA(x), the effect record has dependencies a then b, each flagged
\* isGlobal exactly when the name is in the global-name set at that moment, and
\* its setters contain "setA".
C5_DependenciesAndSetter ==
  (Analyzed /\ effectIn.deps = <<S_a, S_b>> /\ "setA" \in Range(effectIn.exprs)) =>
     /\ effectOut.dependencies =
          <<[name |-> S_a, isGlobal |-> S_a \in effectIn.globals],
            [name |-> S_b, isGlobal |-> S_b \in effectIn.globals]>>
     /\ S_setA \in Range(effectOut.setters)

\* useEffect(() => setA(x), [a, b]) analysed: the dependencies are right, with a
\* flagged global, and no setter is recorded.
C5_ExpressionBodyLosesSetter ==
  /\ Analyzed
  /\ effectIn.form = "expression" /\ effectIn.exprs = <<"setA">>
  /\ effectIn.deps = <<S_a, S_b>> /\ effectIn.globals = {S_a}
  /\ effectOut.dependencies = <<[name |-> S_a, isGlobal |-> TRUE],
                                [name |-> S_b, isGlobal |-> FALSE]>>
  /\ effectOut.setters = <<>>

\* C6: in an effect body, each member access on an identifier ending in "Ref" is
\* recorded in exactly one of the two sets: in refWrites (and not refReads) when it
\* is the left side of an assignment, in refReads (and not refWrites) otherwise. So
\* fooRef is in refWrites exactly when the body has `fooRef.current = 1`, and in
\* refReads exactly when it has another access (`console.log(fooRef.current)`,
\* `fooRef.current`, `x = fooRef.current`).
C6_RefAccessInOneSet ==
  Analyzed =>
     /\ (S_fooRef \in Range(effectOut.refWrites)) <=> ("write" \in Range(effectIn.exprs))
     /\ (S_fooRef \in Range(effectOut.refReads))
          <=> (Range(effectIn.exprs) \cap {"log", "member", "copy"} # {})

\* useEffect(() => fooRef.current, ...) analysed: fooRef is in neither set.
C6_MemberBodyInNeitherSet ==
  /\ Analyzed
  /\ effectIn.form = "expression" /\ effectIn.exprs = <<"member">>
  /\ effectOut.refReads = <<>> /\ effectOut.refWrites = <<>>

---------------------------------------------------------------------------
(* Properties of the element walk (SpecJsxWalk).                            *)

\* The position in the result list of the record with an id (0: none).
JsxIndexOf(id) == FirstTrue([k \in 1..Len(walk.result) |-> walk.result[k].id = id])

C10_DepthIsOpenCount ==
  /\ Len(walk.jsxStack) = Len(walk.open)
  /\ \A i \in 1..Len(walk.result) :
       /\ walk.result[i].depth = walk.openAtEntry[i]
       /\ walk.result[i].parentId = NullId => walk.result[i].depth = 0
       /\ walk.result[i].parentId # NullId =>
            /\ JsxIndexOf(walk.result[i].parentId) # 0
            /\ walk.result[i].depth
                 = walk.result[JsxIndexOf(walk.result[i].parentId)].depth + 1

\* A walk that has ended: every element left, depths 0, 1, 2 and 1 recorded.
C10_WalkEnded ==
  /\ Len(walk.result) = 4
  /\ walk.open = <<>> /\ walk.jsxStack = <<>>
  /\ [i \in 1..4 |-> walk.result[i].depth] = <<0, 1, 2, 1>>

---------------------------------------------------------------------------
(* Further properties of the pipeline (Spec).                               *)

\* The ids of a list of records, in list order.
IdsOf(records) == [k \in 1..Len(records) |-> records[k].id]

\* C11: within one fact model returned by mapping, no two hook records share an id,
\* no two effect records share an id, no two callback records share an id and no two
\* element nodes share an id, and in each list the k-th record carries the k-th id
\* in generation order (hook-k, effect-k, callback-k, jsx-k).
C11_IdsCountTheRecords ==
  Stored =>
    /\ IdsOf(result.hooks)     = [k \in 1..Len(result.hooks)     |-> <<"hook", k>>]
    /\ IdsOf(result.effects)   = [k \in 1..Len(result.effects)   |-> <<"effect", k>>]
    /\ IdsOf(result.callbacks) = [k \in 1..Len(result.callbacks) |-> <<"callback", k>>]
    /\ IdsOf(result.jsxNodes)  = [k \in 1..Len(result.jsxNodes)  |-> <<"jsx", k>>]
    /\ \A i, j \in 1..Len(result.hooks) : i # j => result.hooks[i].id # result.hooks[j].id
    /\ \A i, j \in 1..Len(result.effects) :
         i # j => result.effects[i].id # result.effects[j].id
    /\ \A i, j \in 1..Len(result.callbacks) :
         i # j => result.callbacks[i].id # result.callbacks[j].id
    /\ \A i, j \in 1..Len(result.jsxNodes) :
         i # j => result.jsxNodes[i].id # result.jsxNodes[j].id

\* A fact model with three hook records, a callback record and two element nodes.
C11_SeveralRecords ==
  /\ pc = "mapped"
  /\ Len(result.hooks) = 3
  /\ Len(result.callbacks) = 1
  /\ Len(result.jsxNodes) = 2

---------------------------------------------------------------------------
(* Properties of repeated calls (SpecRepeat).                               *)

---------------------------------------------------------------------------
(* Properties of the layouts (Spec).                                        *)

\* The end of an edge lies where the node it names lies now.
EndAtNode(graph, end) ==
  \A k \in 1..Len(graph.nodes) :
     graph.nodes[k].id = end.nodeId => (end.x = graph.nodes[k].x /\ end.y = graph.nodes[k].y)

\* C13: in every layout the pipeline returns (from buildGraphFromMappingResult, from
\* applyStateFunctionLayout and from applyJsxTreeLayout, including when a refiner
\* returns early because there are no state nodes or no element nodes), each edge
\* endpoint's x and y equal the current x and y of the node named by that
\* endpoint's nodeId.
C13_EdgeEndsAtNodePositions ==
  (pc \in {"built", "rows", "laid"}) =>
     \A i \in 1..Len(layout.edges) :
        EndAtNode(layout, layout.edges[i].from) /\ EndAtNode(layout, layout.edges[i].to)

\* The pipeline's last layout for a component without state nodes and without
\* element nodes: both refiners returned their argument, and an edge still starts
\* at the right side of its node, width / 2 beside the node's x.
C13_EdgeEndBesideNode ==
  /\ pc = "laid"
  /\ \A k \in 1..Len(layout.nodes) : layout.nodes[k].kind \notin {"state", "jsx"}
  /\ \E i \in 1..Len(layout.edges) : \E k \in 1..Len(layout.nodes) :
        /\ layout.nodes[k].id = layout.edges[i].from.nodeId
        /\ layout.edges[i].from.x = layout.nodes[k].x + layout.nodes[k].width \div 2

\* The edges between an element node and anything else that carry a bound name.
BindingEdges(graph, jsxNodeId, name) ==
  LET Is(e) == /\ e.id.tag \in {"jsx-ref-attr", "jsx-ref-prop", "jsx-prop"}
               /\ e.label = name
               /\ (e.from.nodeId = jsxNodeId \/ e.to.nodeId = jsxNodeId)
  IN SelectSeq(graph.edges, Is)

\* The nodes of a kind, in the order of the node list.
NodesOfKind(graph, kind) == LET Is(n) == n.kind = kind IN SelectSeq(graph.nodes, Is)

\* The one edge claimed for element record `jsx` and bound name `name` (<<>>: none),
\* as kind, start and end.
ClaimedBinding(graph, jsx, name) ==
  LET refs   == NodesOfKind(graph, "independent")
      states == NodesOfKind(graph, "state")
      r      == FirstTrue([i \in 1..Len(refs) |-> refs[i].label = name])
      st     == FirstTrue([i \in 1..Len(states) |-> StartsWith(states[i].label, name)])
      self   == <<"jsx">> \o jsx.id
  IN IF r # 0 /\ name \in Range(jsx.refProps)
     THEN <<[kind |-> "state-mutation", from |-> self, to |-> refs[r].id]>>
     ELSE IF r # 0
     THEN <<[kind |-> "state-dependency", from |-> refs[r].id, to |-> self]>>
     ELSE IF st # 0
     THEN <<[kind |-> "state-dependency", from |-> states[st].id, to |-> self]>>
     ELSE <<>>

\* return <div ref={boxRef} />; in a component with const boxRef = useRef(0);
AttachesBoxRef(source) ==
  /\ source.parses
  /\ source.form \in {"function", "arrow"}
  /\ StmtUseRef(S_boxRef) \in Range(source.stmts)
  /\ source.returned =
       ReturnOf(<<0>>, <<Decor(S_div, <<JSXAttribute(S_ref, JSXExpressionContainer(
                                            Identifier(S_boxRef)))>>, <<>>)>>)

\* C14: for each element node and each identifier bound in its attributes,
\* buildGraphFromMappingResult emits at most one edge for that pair, chosen in this
\* priority: element-to-ref mutation edge if the name is a ref node's label and was
\* bound through the ref attribute; ref-to-element dependency edge if it is a ref
\* node's label bound through another attribute; otherwise state-to-element
\* dependency edge if a state node's label starts with the name. A useRef named
\* boxRef attached as <div ref={boxRef} /> gives one independent node boxRef, one
\* element-to-ref mutation edge and no ref-to-element dependency edge.
C14_OneEdgePerBoundName ==
  (pc = "built" /\ Stored) =>
     /\ \A k \in 1..Len(result.jsxNodes) : \A name \in Range(result.jsxNodes[k].props) :
          LET jsx   == result.jsxNodes[k]
              edges == BindingEdges(layout, <<"jsx">> \o jsx.id, name)
          IN [i \in 1..Len(edges) |->
                [kind |-> edges[i].kind, from |-> edges[i].from.nodeId,
                 to |-> edges[i].to.nodeId]]
             = ClaimedBinding(layout, jsx, name)
     /\ AttachesBoxRef(src) =>
          LET div     == NodeIdsOf(layout, "jsx", S_div)
              boxRef  == NodeIdsOf(layout, "independent", S_boxRef)
              FromDiv(e)  == e.from.nodeId \in div /\ e.to.nodeId \in boxRef
              FromRef(e)  == e.from.nodeId \in boxRef /\ e.to.nodeId \in div
          IN /\ Cardinality(boxRef) = 1
             /\ Len(SelectSeq(layout.edges, FromDiv)) = 1
             /\ SelectSeq(layout.edges, FromDiv)[1].kind = "state-mutation"
             /\ SelectSeq(layout.edges, FromRef) = <<>>

\* The graph of the boxRef component: the div is attached to the ref.
C14_BoxRefAttached ==
  /\ pc = "built"
  /\ AttachesBoxRef(src)
  /\ src.stmts = <<StmtUseRef(S_boxRef)>>
  /\ Len(layout.edges) = 1
  /\ layout.edges[1].id.tag = "jsx-ref-attr"

---------------------------------------------------------------------------
(* Properties of pickPrimaryComponent (SpecPick).                           *)

\* A path without its directories: what follows the last "/".
LastSegment(path) ==
  LET slashes == {i \in 1..Len(path) : path[i] = "/"}
  IN IF slashes = {} THEN path
     ELSE SubSeq(path, (CHOOSE i \in slashes : \A j \in slashes : j <= i) + 1, Len(path))

\* A file name without its extension: what precedes the last ".".
WithoutExtension(name) ==
  LET dots == {i \in 1..Len(name) : name[i] = "."}
  IN IF dots = {} THEN name
     ELSE SubSeq(name, 1, (CHOOSE i \in dots : \A j \in dots : j <= i) - 1)

\* The file's base name with its extension stripped.
BaseName(fileName) == WithoutExtension(LastSegment(fileName))

\* The name the precedence of C15 selects.
Preferred(exportInfo, fileName) ==
  IF exportInfo.defaultExport # Null THEN exportInfo.defaultExport
  ELSE IF Len(exportInfo.namedExports) = 1 THEN exportInfo.namedExports[1]
  ELSE IF fileName # Null /\ BaseName(fileName) \in Range(exportInfo.namedExports)
       THEN BaseName(fileName)
  ELSE IF exportInfo.namedExports # <<>> THEN exportInfo.namedExports[1]
  ELSE Null

\* C15: pickPrimaryComponent returns, in this order of precedence: the default
\* export name if there is one; else the only named export if there is exactly one;
\* else, when a file-name hint is given, the named export equal to the file's base
\* name with its extension stripped; else the first named export; else null.
C15_PrecedenceOfExports ==
  \A k \in 1..Len(callLog) :
     callLog[k].fn = "pickPrimaryComponent" =>
       callLog[k].out = Preferred(callLog[k].arguments[1], callLog[k].arguments[2])

\* export function Bar() {}  export function Foo() {}  with the hint src/Foo.tsx:
\* Bar is picked, the first named export, not Foo.
C15_PathHintPicksFirstExport ==
  /\ Len(callLog) = 1
  /\ callLog[1].fn = "pickPrimaryComponent"
  /\ callLog[1].arguments =
       <<[defaultExport |-> Null, namedExports |-> <<S_Bar, S_Foo>>], S_srcDir \o S_Foo \o S_tsx>>
  /\ callLog[1].out = S_Bar

---------------------------------------------------------------------------
(* Properties of the pipeline without a primary component (SpecNoPrimary).  *)

\* C16: when no primary component is resolved (pickPrimaryComponent returns null),
\* mapping still returns a fact model: componentName is null, hooks, effects,
\* callbacks, jsxNodes and calledVariableNames are empty, errors is empty, and the
\* layout built from it has no nodes and no edges.
C16_NoComponentEmptyModel ==
  /\ (pc # "source" /\ PickPrimaryComponent(CollectExportedComponents(AstOf(src)),
                                            src.fileName) = Null)
       => /\ pc # "thrown"
          /\ Stored
          /\ result.componentName = Null
          /\ result.hooks = <<>> /\ result.effects = <<>>
          /\ result.callbacks = <<>> /\ result.jsxNodes = <<>>
          /\ result.calledVariableNames = <<>>
          /\ result.errors = <<>>
  /\ (pc \in {"built", "rows", "laid"} /\ Stored /\ result.componentName = Null)
       => (layout.nodes = <<>> /\ layout.edges = <<>>)

\* The layout of an unexported function with two hook statements and two elements.
C16_UnexportedLaidOut ==
  /\ pc = "laid"
  /\ src.form = "unexported"
  /\ Len(src.stmts) = 2
  /\ \E i \in 1..2 : IsArrayUseState(src.stmts[i])
  /\ src.returned # <<>>
  /\ result.componentName = Null
  /\ layout.nodes = <<>>

---------------------------------------------------------------------------
(* Properties of the hook records (SpecHook).                               *)

\* C17: every hook record has scope "global" if and only if its kind is zustand
\* (external-store) or react-query (async-query); every other kind has scope
\* "local".
C17_GlobalIffStoreOrQuery ==
  \A k \in 1..Len(callLog) :
     callLog[k].fn = "analyzeComponentBody" =>
       \A i \in 1..Len(callLog[k].out.hooks) :
          LET hook == callLog[k].out.hooks[i]
          IN /\ hook.scope \in {"global", "local"}
             /\ hook.scope = "global" <=> hook.hookKind \in {K_zustand, K_reactQuery}

\* const [a, b] = useQuery(0) with useQuery imported from @tanstack/react-query: two
\* records of kind react-query, both global.
C17_QueryRecordsGlobal ==
  /\ Len(callLog) = 1
  /\ callLog[1].arguments = <<S_useQuery, S_tanstack, "array">>
  /\ Len(callLog[1].out.hooks) = 2
  /\ \A i \in 1..2 : /\ callLog[1].out.hooks[i].hookKind = K_reactQuery
                     /\ callLog[1].out.hooks[i].scope = "global"

---------------------------------------------------------------------------
(* Properties of the effect and callback records (Spec).                    *)

\* A plain identifier name: not empty, and no "." joins two names in it.
IsPlainName(name) == name # <<>> /\ name # Null /\ "." \notin Range(name)

\* C18: in every effect and callback record, the dependency list, the setters set,
\* refReads and refWrites contain only plain identifier names: non-identifier
\* elements of a dependency array are dropped without raising an error, and no
\* entry of the setters set is a dotted or composite name.
C18_OnlyPlainNames ==
  Stored =>
    /\ \A i \in 1..Len(result.effects) :
         LET effect == result.effects[i]
         IN /\ \A d \in Range(effect.dependencies) : IsPlainName(d.name)
            /\ \A n \in Range(effect.setters) : IsPlainName(n)
            /\ \A n \in Range(effect.refReads) : IsPlainName(n)
            /\ \A n \in Range(effect.refWrites) : IsPlainName(n)
    /\ \A i \in 1..Len(result.callbacks) :
         /\ \A n \in Range(result.callbacks[i].dependencies) : IsPlainName(n)
         /\ \A n \in Range(result.callbacks[i].setters) : IsPlainName(n)

\* useLayoutEffect(() => { boxRef.current = 1; console.log(boxRef.current);
\* a.mutate(x); }, [a]) analysed: the setters set holds the dotted name a.mutate.
C18_DottedSetter ==
  /\ pc = "mapped"
  /\ Len(result.effects) = 1
  /\ result.effects[1].dependencies = <<[name |-> S_a, isGlobal |-> FALSE]>>
  /\ result.effects[1].refWrites = <<S_boxRef>>
  /\ result.effects[1].refReads = <<S_boxRef>>
  /\ result.effects[1].setters = <<S_a \o <<".">> \o S_mutate>>

---------------------------------------------------------------------------
(* Properties of the layout of no fact model (Spec).                        *)

\* The five column x-coordinates in their order.
ColumnsOf(graph) ==
  <<graph.colX.independent, graph.colX.state, graph.colX.variable, graph.colX.effect,
    graph.colX.jsx>>

\* C19: buildGraphFromMappingResult(null) does not fail: it returns a layout with no
\* nodes and no edges, the default canvas size (1160 by 800), and the same five
\* column x-coordinates (independent < state < variable < effect < jsx, evenly
\* spaced) that a non-null fact model gets.
C19_NullModelEmptyLayout ==
  /\ IsNullResult(result) =>
       /\ layout.nodes = <<>> /\ layout.edges = <<>>
       /\ layout.width = 1160 /\ layout.height = 800
       /\ \A k \in 1..4 : /\ ColumnsOf(layout)[k] < ColumnsOf(layout)[k + 1]
                          /\ ColumnsOf(layout)[k + 1] - ColumnsOf(layout)[k]
                               = ColumnsOf(layout)[2] - ColumnsOf(layout)[1]
  /\ ColumnsOf(layout) = <<80, 300, 520, 740, 960>>

\* The builder has run on null, after mapping left no result.
C19_BuiltFromNull ==
  /\ pc = "built"
  /\ IsNullResult(result)
  /\ layout.nodes = <<>>
  /\ layout.colX.jsx = 960

---------------------------------------------------------------------------
(* Properties of the element-tree layout (SpecJsxLayout).                   *)

\* The element records' parents by position in result.jsxNodes (0: a root); the
\* k-th record has id jsx-k (C11).
ParentIndex(k) ==
  IF result.jsxNodes[k].parentId = NullId THEN 0 ELSE result.jsxNodes[k].parentId[2]

\* The layout node of the k-th element record.
ElementNode(k) ==
  layout.nodes[FirstTrue([i \in 1..Len(layout.nodes) |->
                            layout.nodes[i].id = <<"jsx">> \o result.jsxNodes[k].id])]

\* The row of the k-th element: y = 80 + row * 40.
RowOf(k) == (ElementNode(k).y - 80) \div 40

\* The elements in the subtree of element a, a included.
RECURSIVE IsInSubtree(_, _)
IsInSubtree(k, a) == k = a \/ (ParentIndex(k) # 0 /\ IsInSubtree(ParentIndex(k), a))

\* The last row used by the subtrees of the elements of a set.
LastRowOf(elements) ==
  LET rows == {RowOf(m) : m \in {n \in 1..Len(result.jsxNodes) :
                                   \E a \in elements : IsInSubtree(n, a)}}
  IN CHOOSE r \in rows : \A q \in rows : q <= r

\* C20: applyJsxTreeLayout places every element node reachable from a root at
\* x = jsx column base + depth * per-depth offset (160) and y = base (80) + row * row
\* gap (40), where the first root starts at row 0, a node's first child starts at the
\* node's own row, each later child starts at the row immediately after all rows
\* consumed by the subtrees of its earlier siblings (in document order), and each
\* later root starts at the row immediately after the rows consumed by the previous
\* root's subtree.
C20_RowsPackSubtrees ==
  (pc = "laid" /\ Stored) =>
     \A k \in 1..Len(result.jsxNodes) :
        LET earlier == {j \in 1..(k - 1) : ParentIndex(j) = ParentIndex(k)}
        IN /\ ElementNode(k).x = layout.colX.jsx + result.jsxNodes[k].depth * 160
           /\ ElementNode(k).y = 80 + RowOf(k) * 40
           /\ RowOf(k) >= 0
           /\ (earlier = {} /\ ParentIndex(k) = 0) => RowOf(k) = 0
           /\ (earlier = {} /\ ParentIndex(k) # 0) => RowOf(k) = RowOf(ParentIndex(k))
           /\ earlier # {} => RowOf(k) = LastRowOf(earlier) + 1

\* A root with two children, the first of them with two children of its own: the
\* second child lies on row 2, below the two rows of the first child's subtree.
C20_SecondChildBelowSubtree ==
  /\ pc = "laid"
  /\ Len(result.jsxNodes) = 5
  /\ [k \in 1..5 |-> ParentIndex(k)] = <<0, 1, 2, 2, 1>>
  /\ [k \in 1..5 |-> RowOf(k)] = <<0, 0, 0, 1, 2>>
  /\ ElementNode(5).x = 960 + 160

---------------------------------------------------------------------------
(* Properties of the calls of layoutSubtree (SpecSubtree).                  *)

\* The ids of the element nodes below the node `id` in the layout's parent links.
RECURSIVE DescendantIds(_, _)
DescendantIds(id, fuel) ==
  LET kids == {layout.nodes[i].id : i \in {j \in 1..Len(layout.nodes) :
                                             /\ layout.nodes[j].kind = "jsx"
                                             /\ layout.nodes[j].meta.jsxParentId = id}}
  IN IF fuel = 0 THEN {}
     ELSE kids \cup UNION {DescendantIds(kid, fuel - 1) : kid \in kids}

\* The largest row index among the positions a call set for the node's descendants.
MaxDescendantRow(call) ==
  LET below == DescendantIds(call.arguments[1], Len(layout.nodes))
      rows  == {(call.out.placed[k].y - 80) \div 40 :
                  k \in {j \in 1..Len(call.out.placed) : call.out.placed[j].id \in below}}
  IN CHOOSE r \in rows : \A q \in rows : q <= r

AtLeastOne(n) == IF n > 1 THEN n ELSE 1

\* C21 (as stated): the row count layoutSubtree returns for a node is 1 for a leaf
\* and, for a node with children, equals the maximum row index reached by any
\* descendant minus the node's own starting row, floored at 1.
C21_RowCountIsLastRowMinusStart ==
  \A c \in 1..Len(callLog) :
     callLog[c].out.used =
       IF DescendantIds(callLog[c].arguments[1], Len(layout.nodes)) = {} THEN 1
       ELSE AtLeastOne(MaxDescendantRow(callLog[c]) - callLog[c].arguments[3])

\* C21 (amended): the row count layoutSubtree returns for a node is 1 for a leaf
\* and, for a node with children, equals the number of rows from the node's own
\* starting row to the maximum row index reached by any descendant, both included
\* (that maximum minus the starting row, plus one), which is at least 1.
C21_RowCountIsRowsSpanned ==
  \A c \in 1..Len(callLog) :
     callLog[c].out.used =
       IF DescendantIds(callLog[c].arguments[1], Len(layout.nodes)) = {} THEN 1
       ELSE AtLeastOne(MaxDescendantRow(callLog[c]) - callLog[c].arguments[3] + 1)

\* A call for a node with two leaf children, started on row 1 (the node is a second
\* root): the children are set on rows 1 and 2 and the call returns 2.
C21_TwoLeafChildren ==
  \E c \in 1..Len(callLog) :
     /\ callLog[c].fn = "layoutSubtree"
     /\ callLog[c].arguments[3] = 1
     /\ Len(callLog[c].out.placed) = 3
     /\ [k \in 1..3 |-> (callLog[c].out.placed[k].y - 80) \div 40] = <<1, 1, 2>>
     /\ callLog[c].out.used = 2

---------------------------------------------------------------------------
(* Element nodes do not overlap (SpecJsxLayout).                             *)

\* C22: after applyJsxTreeLayout runs on the element nodes of any fact model produced
\* by mapping, no two element nodes have the same (x, y) position, and nodes at the
\* same depth (siblings and cousins) are on pairwise distinct rows.
C22_ElementNodesApart ==
  (pc = "laid" /\ Stored) =>
     \A j, k \in 1..Len(result.jsxNodes) :
        j # k =>
          /\ <<ElementNode(j).x, ElementNode(j).y>> # <<ElementNode(k).x, ElementNode(k).y>>
          /\ result.jsxNodes[j].depth = result.jsxNodes[k].depth => ElementNode(j).y # ElementNode(k).y

\* A root with two children that have one child each: the cousins, both at depth 2,
\* lie on rows 0 and 1.
C22_CousinsOnTwoRows ==
  /\ pc = "laid"
  /\ Len(result.jsxNodes) = 5
  /\ [k \in 1..5 |-> ParentIndex(k)] = <<0, 1, 2, 1, 4>>
  /\ result.jsxNodes[3].depth = 2 /\ result.jsxNodes[5].depth = 2
  /\ [k \in 1..5 |-> RowOf(k)] = <<0, 0, 0, 1, 1>>

---------------------------------------------------------------------------
(* The canvas and the nodes (SpecTall).                                      *)

\* C23: in the layout returned by applyJsxTreeLayout, for every input layout and every
\* node of the result (state, ref, effect and element nodes alike),
\* node.x + node.width/2 + 40 <= width and node.y + node.height/2 + 40 <= height.
C23_CanvasBoundsEveryNode ==
  pc = "laid" =>
     \A i \in 1..Len(layout.nodes) :
        /\ layout.nodes[i].x + layout.nodes[i].width \div 2 + 40 <= layout.width
        /\ layout.nodes[i].y + layout.nodes[i].height \div 2 + 40 <= layout.height

\* The same bound where the layout holds an element node.
C23_CanvasBoundsWithElements ==
  (pc = "laid" /\ \E i \in 1..Len(layout.nodes) : layout.nodes[i].kind = "jsx") =>
     \A i \in 1..Len(layout.nodes) :
        /\ layout.nodes[i].x + layout.nodes[i].width \div 2 + 40 <= layout.width
        /\ layout.nodes[i].y + layout.nodes[i].height \div 2 + 40 <= layout.height

\* Thirteen refs and no element: the last ref node is at y = 680 on a canvas that
\* applyJsxTreeLayout returned 720 high.
C23_TallColumnNoElements ==
  /\ pc = "laid"
  /\ Len(layout.nodes) = 13
  /\ \A i \in 1..Len(layout.nodes) : layout.nodes[i].kind = "independent"
  /\ layout.nodes[13].y = 680
  /\ layout.height = 720

\* Thirteen refs and one element: the canvas is 736 high.
C23_TallColumnOneElement ==
  /\ pc = "laid"
  /\ Len(layout.nodes) = 14
  /\ layout.nodes[13].y = 680
  /\ layout.nodes[14].kind = "jsx"
  /\ layout.height = 736

---------------------------------------------------------------------------
(* Value and setter of one useState declaration (SpecNames).                 *)

\* The names bound by the array-destructured useState declarations of the source.
DeclaredPairs(source) ==
  LET decls == SelectSeq(source.stmts, IsArrayUseState)
  IN {BoundNames(Child(Child(decls[i], "declarations"), "id")) : i \in 1..Len(decls)}

\* The state-column nodes labelled with a name.
StateNodesNamed(name) ==
  {i \in 1..Len(layout.nodes) : layout.nodes[i].kind = "state" /\ layout.nodes[i].label = name}

\* The state-link edges between two nodes, in either direction.
LinksBetween(a, b) ==
  {e \in 1..Len(layout.edges) :
     /\ layout.edges[e].kind = "state-link"
     /\ {layout.edges[e].from.nodeId, layout.edges[e].to.nodeId} = {a.id, b.id}}

\* One declaration's value and setter are paired in the layout.
IsPairedInLayout(pair) ==
  /\ Cardinality(StateNodesNamed(pair[1])) = 1
  /\ Cardinality(StateNodesNamed(pair[2])) = 1
  /\ LET v == layout.nodes[CHOOSE i \in StateNodesNamed(pair[1]) : TRUE]
         s == layout.nodes[CHOOSE i \in StateNodesNamed(pair[2]) : TRUE]
     IN /\ v.y = s.y
        /\ v.x = layout.colX.state - STATE_FN_OFFSET_X
        /\ s.x = layout.colX.state + STATE_FN_OFFSET_X
        /\ Cardinality(LinksBetween(v, s)) = 1
        /\ \A e \in LinksBetween(v, s) :
              layout.edges[e].from.nodeId = s.id /\ layout.edges[e].to.nodeId = v.id

\* C24: for every `const [v, setV] = useState(...)` declaration of the primary
\* component, after applyStateFunctionLayout the node of v and the node of setV have
\* the same y, v is in the left sub-column (state column x minus the offset) and
\* setV in the right sub-column (state column x plus the offset), and exactly one
\* state-link edge joins them, from the setter node to the value node.
C24_DeclarationsArePaired ==
  (pc \in {"rows", "laid"} /\ Stored) =>
     \A pair \in DeclaredPairs(src) : IsPairedInLayout(pair)

\* The same for the declarations whose value name does not begin with "set".
C24_PairedUnlessValueNamedSet ==
  (pc \in {"rows", "laid"} /\ Stored) =>
     \A pair \in DeclaredPairs(src) : ~StartsWith(pair[1], S_set) => IsPairedInLayout(pair)

\* const [settings, setSettings] = useState(0) alone: the two nodes lie on two rows
\* of the left sub-column and no edge links them.
C24_SettingsOnTwoRows ==
  /\ pc = "rows"
  /\ DeclaredPairs(src) = {<<S_settings, S_setSettings>>}
  /\ Len(layout.nodes) = 2
  /\ layout.nodes[1].label = S_settings /\ layout.nodes[2].label = S_setSettings
  /\ layout.nodes[1].x = 230 /\ layout.nodes[2].x = 230
  /\ layout.nodes[1].y = 80 /\ layout.nodes[2].y = 120
  /\ layout.edges = <<>>

---------------------------------------------------------------------------
(* Setters and their mutation edges (Spec).                                  *)

\* The state name a setter stands for: "set" stripped and the next letter lower-cased
\* when the setter reads set + upper-case letter + rest, else the setter itself.
PresumedStateName(setter) ==
  IF Len(setter) >= 4 /\ SubSeq(setter, 1, 3) = S_set /\ setter[4] \in UpperCase
  THEN <<ToLowerCaseChar(setter[4])>> \o SubSeq(setter, 5, Len(setter))
  ELSE setter

\* The state nodes of a layout whose label starts with a name.
StateNodesStarting(graph, name) ==
  {graph.nodes[i].id : i \in {j \in 1..Len(graph.nodes) :
                                 /\ graph.nodes[j].kind = "state"
                                 /\ StartsWith(graph.nodes[j].label, name)}}

\* The edges of a layout pushed for one setter of one effect or callback record.
SetterEdges(graph, tag, recordId, setter) ==
  {e \in 1..Len(graph.edges) :
     /\ graph.edges[e].id.tag = tag
     /\ graph.edges[e].id.a = NodeId("effect", recordId)
     /\ graph.edges[e].id.name = setter}

\* A fact model with one setter of one effect (or callback) record not recorded.
WithoutSetter(model, field, k, setter) ==
  LET Other(name) == name # setter
  IN [model EXCEPT ![field][k].setters = SelectSeq(@, Other)]

\* A layout without the copies of the records that its effect nodes carry.
Drawn(graph) ==
  [nodes |-> [i \in 1..Len(graph.nodes) |->
                [id |-> graph.nodes[i].id, label |-> graph.nodes[i].label,
                 kind |-> graph.nodes[i].kind, x |-> graph.nodes[i].x, y |-> graph.nodes[i].y,
                 width |-> graph.nodes[i].width, height |-> graph.nodes[i].height]],
   edges |-> graph.edges, width |-> graph.width, height |-> graph.height]

\* What the claim says of one setter of the k-th record of a field of the model.
SetterIsDrawn(field, tag, k, setter) ==
  LET matching == StateNodesStarting(layout, PresumedStateName(setter))
      pushed   == SetterEdges(layout, tag, result[field][k].id, setter)
  IN IF matching # {}
     THEN /\ Cardinality(pushed) = 1
          /\ \A e \in pushed :
                /\ layout.edges[e].kind = "state-mutation"
                /\ layout.edges[e].from.nodeId = NodeId("effect", result[field][k].id)
                /\ layout.edges[e].to.nodeId \in matching
     ELSE /\ pushed = {}
          /\ Drawn(layout)
               = Drawn(BuildGraphFromMappingResult(WithoutSetter(result, field, k, setter)))

---------------------------------------------------------------------------
(* Dependencies known global when the effect is visited (Spec).              *)

\* The hook records of global scope that bind a name on a line above a record's line:
\* the statements are visited in source order, one statement per line.
GlobalHooksAbove(name, line) ==
  {i \in 1..Len(result.hooks) :
     /\ result.hooks[i].scope = "global"
     /\ result.hooks[i].hookKind \in {K_zustand, K_reactQuery}
     /\ result.hooks[i].name = name
     /\ result.hooks[i].definedAt.line < line}

\* C26: a dependency entry of an effect is flagged isGlobal = true if and only if its
\* name was bound by an external-store or async-query hook declaration that the
\* component-body traversal visited before it visited that effect call; a global hook
\* declared after the effect in the source leaves the flag false.
C26_GlobalIffDeclaredAbove ==
  Stored =>
     \A k \in 1..Len(result.effects) :
        \A d \in 1..Len(result.effects[k].dependencies) :
           result.effects[k].dependencies[d].isGlobal
             <=> GlobalHooksAbove(result.effects[k].dependencies[d].name,
                                  result.effects[k].definedAt.line) # {}

\* useLayoutEffect(..., [a]) on line 1 and const a = useStore() on line 2: the hook is
\* recorded global and the dependency a is not flagged.
C26_StoreDeclaredBelow ==
  /\ Stored
  /\ Len(result.effects) = 1 /\ Len(result.hooks) = 1
  /\ result.effects[1].definedAt.line = 1
  /\ result.hooks[1].definedAt.line = 2
  /\ result.hooks[1].scope = "global" /\ result.hooks[1].name = S_a
  /\ result.effects[1].dependencies = <<[name |-> S_a, isGlobal |-> FALSE]>>

\* The same two statements in the other order: the dependency a is flagged.
C26_StoreDeclaredAbove ==
  /\ Stored
  /\ Len(result.effects) = 1 /\ Len(result.hooks) = 1
  /\ result.hooks[1].definedAt.line = 1
  /\ result.effects[1].definedAt.line = 2
  /\ result.effects[1].dependencies = <<[name |-> S_a, isGlobal |-> TRUE]>>

---------------------------------------------------------------------------
(* The rule table of classifyHookKind (SpecHook).                            *)

FrameworkHookNames ==
  {S_useState, S_useRef, S_useReducer, S_useEffect, S_useLayoutEffect, S_useCallback, S_useMemo}

\* The first rule of the table that applies to a callee and its import source.
RuleThatApplies(calleeName, importSource) ==
  LET Contains(marker) == importSource # Null /\ Includes(importSource, marker)
      lower == ToLowerCase(calleeName)
  IN CASE calleeName \in FrameworkHookNames -> "framework"
       [] /\ calleeName \notin FrameworkHookNames
          /\ StartsWith(calleeName, S_use) /\ EndsWith(calleeName, S_Store)
          /\ Contains(S_zustand) -> "store"
       [] /\ calleeName \notin FrameworkHookNames
          /\ ~(StartsWith(calleeName, S_use) /\ EndsWith(calleeName, S_Store)
                /\ Contains(S_zustand))
          /\ (Contains(S_reactQuery) \/ Contains(S_tanstack))
          /\ (Includes(lower, S_mutation) \/ Includes(lower, S_query)) -> "query"
       [] OTHER -> "none"

\* C27: classifyHookKind is total and applies its rules in order: an exact framework
\* hook name (useState, useRef, useReducer, useEffect, useLayoutEffect, useCallback,
\* useMemo) gives that kind whatever the import source; otherwise a name starting with
\* "use" and ending with "Store" whose import source contains "zustand" gives zustand;
\* otherwise an import source containing a react-query marker with a lower-cased name
\* containing "mutation" or "query" gives react-query; otherwise, including when the
\* import source is unknown, the result is custom.
C27_RulesInOrder ==
  \A k \in 1..Len(callLog) :
     callLog[k].fn = "analyzeComponentBody" =>
       /\ callLog[k].out.hooks # <<>>
       /\ \A i \in 1..Len(callLog[k].out.hooks) :
             LET kind == callLog[k].out.hooks[i].hookKind
                 rule == RuleThatApplies(callLog[k].arguments[1], callLog[k].arguments[2])
             IN /\ rule = "framework" => kind = callLog[k].arguments[1]
                /\ rule = "store" => kind = <<"z","u","s","t","a","n","d">>
                /\ rule = "query" => kind = <<"r","e","a","c","t","-","q","u","e","r","y">>
                /\ rule = "none" => kind = <<"c","u","s","t","o","m">>

\* const a = useQueryStore(0) with useQueryStore imported from @/zustand/reactQuery:
\* the store rule and the query rule both match, and the kind is zustand.
C27_StoreBeforeQuery ==
  /\ Len(callLog) = 1
  /\ callLog[1].arguments = <<S_useQueryStore, S_zustandQuery, "identifier">>
  /\ Len(callLog[1].out.hooks) = 1
  /\ callLog[1].out.hooks[1].hookKind = K_zustand

---------------------------------------------------------------------------
(* Names that begin alike (SpecNames).                                       *)

\* The state-column nodes of the hooks whose name is exactly `name`.
NodesOfHookNamed(name) ==
  {NodeId("state", result.hooks[i].id) :
     i \in {j \in 1..Len(result.hooks) :
              /\ result.hooks[j].name = name
              /\ result.hooks[j].hookKind \in {K_useState, K_zustand, K_reactQuery}}}

\* The end of a name-resolved edge that lies in the state column, and the name the edge
\* was resolved by.
StateEndOf(edge) ==
  IF edge.id.tag \in {"dep", "jsx-prop"} THEN edge.from.nodeId ELSE edge.to.nodeId

ResolvedNameOf(edge) ==
  IF edge.id.tag \in {"dep", "jsx-prop"} THEN edge.id.name ELSE PresumedStateName(edge.id.name)

\* C28: edges that are resolved by name (effect dependency edges, setter mutation edges
\* of effects and callbacks, and state-to-element attribute edges) attach to the state
\* node whose hook name equals the resolved name whenever such a node exists, even if
\* another state-column node declared earlier has a label that merely begins with that
\* name (for example states `counter` and `count`).
C28_AttachToTheNamedState ==
  (pc = "built" /\ Stored) =>
     \A e \in 1..Len(layout.edges) :
        (/\ layout.edges[e].id.tag \in {"dep", "mut", "cb-mut", "jsx-prop"}
         /\ NodesOfHookNamed(ResolvedNameOf(layout.edges[e])) # {})
        => StateEndOf(layout.edges[e]) \in NodesOfHookNamed(ResolvedNameOf(layout.edges[e]))

\* counter declared above count, and <div value={count}>: the attribute edge named
\* count starts at the node of counter.
C28_CountDrawnFromCounter ==
  /\ pc = "built" /\ Stored
  /\ Len(result.hooks) = 4
  /\ result.hooks[1].name = S_counter /\ result.hooks[3].name = S_count
  /\ \E e \in 1..Len(layout.edges) :
        /\ layout.edges[e].id.tag = "jsx-prop"
        /\ layout.edges[e].label = S_count
        /\ layout.edges[e].from.nodeId = NodeId("state", result.hooks[1].id)

---------------------------------------------------------------------------
(* C29 *)

\* The layout that applyJsxTreeLayout was given.
GivenLayout == callLog[1].arguments[1]

\* The node that node i names as its parent (0: no parent in the list).
NamedParent(nodes, i) == LastNodeById(nodes, nodes[i].meta.jsxParentId)

\* Following the parent links from node i ends at a root within `fuel` links.
RECURSIVE ReachesRoot(_, _, _)
ReachesRoot(nodes, i, fuel) ==
  IF NamedParent(nodes, i) = 0 THEN TRUE
  ELSE IF fuel = 0 THEN FALSE
  ELSE ReachesRoot(nodes, NamedParent(nodes, i), fuel - 1)

\* The calls of layoutSubtree entered for the node with the id.
EnteredFor(id) == {k \in 1..Len(callLog) : callLog[k].fn = "layoutSubtree"
                                           /\ callLog[k].arguments[1] = id}

\* C29: applyJsxTreeLayout terminates whatever parents the element nodes name, a
\* node that names itself or links that form a cycle included: every run comes to
\* its return, and at the return layoutSubtree has been entered once for each node
\* whose parent links lead to a root and never for any other node, and every other
\* node is what it was in the layout given.
C29_TerminatesOffCycles ==
  <>(/\ pc = "laid"
     /\ \A i \in 1..Len(GivenLayout.nodes) :
          IF ReachesRoot(GivenLayout.nodes, i, Len(GivenLayout.nodes))
          THEN Cardinality(EnteredFor(GivenLayout.nodes[i].id)) = 1
          ELSE /\ EnteredFor(GivenLayout.nodes[i].id) = {}
               /\ layout.nodes[i] = GivenLayout.nodes[i])

\* applyJsxTreeLayout has returned on a layout where two nodes name each other as
\* parent beside a root that was laid out.
C29_CycleBesideRoot ==
  /\ pc = "laid"
  /\ Len(callLog) > 1
  /\ \E i, j \in 1..Len(layout.nodes) :
       /\ i # j
       /\ NamedParent(layout.nodes, i) = j
       /\ NamedParent(layout.nodes, j) = i

\* applyJsxTreeLayout has returned on a layout where a node names itself as parent
\* beside a root that was laid out.
C29_SelfParentBesideRoot ==
  /\ pc = "laid"
  /\ Len(callLog) > 1
  /\ \E i \in 1..Len(layout.nodes) : NamedParent(layout.nodes, i) = i

---------------------------------------------------------------------------
(* C30 *)

\* `after` is `before` with nothing changed but the x/y of nodes of the kind, the
\* x/y of edge ends, and edges of the appended kind added behind the edges there were.
OnlyMoves(before, after, kind, appended) ==
  /\ Len(after.nodes) = Len(before.nodes)
  /\ \A i \in 1..Len(before.nodes) :
       /\ after.nodes[i] = [before.nodes[i] EXCEPT !.x = after.nodes[i].x,
                                                   !.y = after.nodes[i].y]
       /\ before.nodes[i].kind # kind => after.nodes[i] = before.nodes[i]
  /\ Len(after.edges) >= Len(before.edges)
  /\ \A e \in 1..Len(before.edges) :
       /\ after.edges[e].id = before.edges[e].id
       /\ after.edges[e].kind = before.edges[e].kind
       /\ after.edges[e].label = before.edges[e].label
  /\ \A e \in (Len(before.edges) + 1)..Len(after.edges) : after.edges[e].kind = appended

\* C30: applyStateFunctionLayout changes the x/y of state-kind nodes only and
\* applyJsxTreeLayout the x/y of element-kind nodes only; both leave every node's id,
\* label, kind, width, height and meta, the order and membership of the node list
\* and the ids, kinds and labels of the edges there were as they are; the state
\* refiner only appends state-link edges and the element refiner appends none.
C30_RefinersOnlyMove ==
  [][/\ (pc = "built" /\ pc' = "rows") => OnlyMoves(layout, layout', "state", "state-link")
     /\ (pc = "rows" /\ pc' = "laid") => OnlyMoves(layout, layout', "jsx", "none")]_vars

\* Both refiners have run on a layout that also holds a node of a third kind: the
\* state refiner moved a state node and appended a link, the element refiner moved
\* an element node.
C30_BothRefinersMoved ==
  /\ pc = "laid"
  /\ \E i \in 1..Len(layout.nodes) : layout.nodes[i].kind \notin {"state", "jsx"}
  /\ \E e \in 1..Len(layout.edges) : layout.edges[e].kind = "state-link"
  /\ \E i, j \in 1..Len(layout.nodes) :
       /\ layout.nodes[i].kind = "state"
       /\ layout.nodes[i] # BuildGraphFromMappingResult(result).nodes[i]
       /\ layout.nodes[j].kind = "jsx"
       /\ layout.nodes[j] # BuildGraphFromMappingResult(result).nodes[j]

====
